---- MODULE Spec2Model ----
(***************************************************************************)
(* Verification model of the prop firmware.                                *)
(*                                                                         *)
(* Part I   polyinoculator/src/main.cpp : the single-threaded loop() with  *)
(*          the sACN (E1.31) receiver, the priority arbitration and the    *)
(*          UDP JSON command processor.                                    *)
(* Part II  src/main.cpp (tricorder)    : the three FreeRTOS tasks, the    *)
(*          bounded queues between them and the frame playback scheduler.  *)
(* Part III tricorder/src/main.cpp      : the boot button watched by       *)
(*          loop(), which starts the factory reset.                        *)
(* Part IV  defragmentor/src/main.cpp   : loop() with the trigger input    *)
(*          and the handlers of the asynchronous web server.               *)
(***************************************************************************)
EXTENDS Integers, Sequences, FiniteSets, TLC

VARIABLES
  \* ---- Part I: polyinoculator ----
  pc,              \* position inside loop(): "sacn", "udp", "wifi"
  now,             \* millis()
  wifiStatus,      \* WiFi.status() == WL_CONNECTED (environment)
  wifiConnected, lastWifiStatus,
  sacnEnabled, sacnUniverse, sacnStartAddress,
  lastSacnPacket, lastSacnData, sacnActive, sacnSequence, sacnPriority,
  leds1, leds2, leds3, currentColor, ledBrightness,
  rx,              \* the packet handled by the last handleSACNPackets call
  rxAccepted,      \* what processSACNPacket returned for it
  cmd,             \* the datagram handled by the last handleUDPCommands call
  udpOut,          \* the response datagram that call sent ("" = none)
  \* ---- Part II: tricorder ----
  ledQ, videoQ,    \* ledCommandQueue, videoCommandQueue
  leds, fastLedBrightness,
  ledRun,          \* where ledTask is: waiting on the queue or inside an effect
  ledSent,         \* the LED commands whose xQueueSend succeeded, in order
  ledApplied,      \* the LED commands ledTask took from the queue, in order
  boot,            \* setup(): where it is, and the three queue handles
  netPc,           \* networkTask: "start" before SD.begin, then "loop"
  netWait,         \* the video command networkTask is blocked on in xQueueSend
  nRecv,           \* datagrams networkTask has read
  triCmd,          \* the datagram networkTask read last
  triOut,          \* the last response networkTask sent
  vidSent,         \* the video commands whose xQueueSend succeeded, in order
  vidDone,         \* the video commands videoTask took from the queue, in order
  sdCardInitialized,
  sdAnim,          \* the files of /videos/anim in the order of enumeration
  videoPlaying, videoLooping, currentVideo, currentFrame, totalFrames,
  frameFiles, isAnimatedSequence,
  frameAge,        \* millis() - lastFrameTime, counted up to FRAME_DELAY_MS
  screen,          \* what the TFT shows
  attempted,       \* the frames showVideoFrame tried since the last playVideo
  videoBuffer,     \* the file whose bytes videoBuffer holds
  touched,         \* who has used the strip, the display, the UDP socket and
                   \* the variables of several tasks since the tasks were created
  \* ---- Part III: the boot button of the tricorder ----
  bootPin,         \* digitalRead(BOOT_BUTTON_PIN) == LOW: the button is held
  supNow,          \* millis() of this board
  bootButtonPressed, bootButtonPressStart, resetInProgress,
  builtinLED,      \* the colour setBuiltinLED wrote last
  pressedSince,    \* millis() of the first check of the present unbroken run
                   \* of checks that read the button as pressed (-1: none)
  holdResets,      \* factory resets since the button was last up
  \* ---- Part IV: defragmentor ----
  triggerPin,      \* digitalRead(TRIGGER_PIN) == LOW: the trigger is pressed
  currentState, servoPosition, powerEnabled,
  ledPattern,      \* the pattern setLEDPattern showed last
  dfLoop,          \* loop(): where it is
  dfWeb,           \* the web request whose handler is running
  lastTriggerRead  \* what the previous pass of loop() read on the trigger

polyVars == << pc, now, wifiStatus, wifiConnected, lastWifiStatus,
               sacnEnabled, sacnUniverse, sacnStartAddress,
               lastSacnPacket, lastSacnData, sacnActive, sacnSequence, sacnPriority,
               leds1, leds2, leds3, currentColor, ledBrightness,
               rx, rxAccepted, cmd, udpOut >>

ledVars == << ledQ, leds, fastLedBrightness, ledRun, ledSent, ledApplied >>
netVars == << boot, netPc, netWait, nRecv, triCmd, triOut >>
videoVars == << videoQ, vidSent, vidDone, sdCardInitialized, sdAnim,
                videoPlaying, videoLooping, currentVideo, currentFrame, totalFrames,
                frameFiles, isAnimatedSequence, frameAge, screen, attempted, videoBuffer >>
triVars == << ledVars, netVars, videoVars, touched >>

supVars == << bootPin, supNow, bootButtonPressed, bootButtonPressStart, resetInProgress,
              builtinLED, pressedSince, holdResets >>
defragVars == << triggerPin, currentState, servoPosition, powerEnabled, ledPattern,
                 dfLoop, dfWeb, lastTriggerRead >>
otherBoardVars == << supVars, defragVars >>

vars == << polyVars, triVars, otherBoardVars >>

-----------------------------------------------------------------------------
(* Bounds of the model *)
TickMs == 10000          \* granularity of the clock
MaxTicks == 4            \* the clock stops after MaxTicks ticks
MaxAttemptLog == 4       \* entries kept in the log of attempted frames
MaxDirFiles == 3         \* files in the animation folder
MaxLedDatagrams == 12    \* datagrams read while the LED channel is examined
MaxVideoDatagrams == 7   \* datagrams read while the video channel is filled
MaxChanDatagrams == 4    \* datagrams read while both channels are in use
MaxPlayDatagrams == 2    \* datagrams read while playback is examined
MaxAnimDatagrams == 1    \* animation requests while playback to the end is examined
MaxIgnoredDatagrams == 3 \* datagrams read while ignored input is examined
MaxBootDatagrams == 2    \* datagrams read while setup() is examined
MaxBufferDatagrams == 2  \* datagrams read while the decode buffer is examined
MaxBigFiles == 31        \* files in an animation folder that exceeds the frame table
SupTickMs == 1000        \* granularity of the clock of the boot button
MaxSupTicks == 6         \* that clock stops after MaxSupTicks ticks
MaxHoldResets == 2       \* factory resets followed while the button stays down
MaxReplaceDatagrams == 2 \* play_video requests while their succession is examined

-----------------------------------------------------------------------------
(* Part I constants: polyinoculator/src/main.cpp *)
NUM_LEDS_1 == 14
NUM_LEDS_2 == 8
NUM_LEDS_3 == 8
TOTAL_LEDS == 30
E131_PACKET_SIZE == 638
E131_DATA_OFFSET == 126
E131_UNIVERSE_OFFSET == 113
E131_SEQUENCE_OFFSET == 111
SACN_TIMEOUT_MS == 30000
DMX_SLOTS == 512

\* "ASC-E1.17\0\0\0"
ACN_PACKET_IDENTIFIER == << 65, 83, 67, 45, 69, 49, 46, 49, 55, 0, 0, 0 >>

Min(a, b) == IF a < b THEN a ELSE b

\* CRGB(r, g, b): the three arguments are narrowed to uint8_t
CRGB(r, g, b) == << r % 256, g % 256, b % 256 >>
Black == << 0, 0, 0 >>
Red == << 255, 0, 0 >>
Green == << 0, 128, 0 >>

fill_solid(n, color) == [i \in 0..(n - 1) |-> color]

-----------------------------------------------------------------------------
(* sACN packets on the wire.  A packet is described by the fields the       *)
(* sender chose; PacketBytes gives the bytes of the datagram.               *)
NoPacket == [len |-> 0, badAt |-> 0, universe |-> 0, seq |-> 0, pat |-> 0]

\* payload byte j of test pattern pat: neighbouring slots differ
PayloadByte(pat, j) == (pat * 97 + j * 3) % 256

PacketBytes(p) ==
  [i \in 0..(p.len - 1) |->
     IF i >= 4 /\ i < 16
       THEN IF p.badAt = i - 3 THEN (ACN_PACKET_IDENTIFIER[i - 3] + 1) % 256
                               ELSE ACN_PACKET_IDENTIFIER[i - 3]
     ELSE IF i = E131_UNIVERSE_OFFSET THEN (p.universe \div 256) % 256
     ELSE IF i = E131_UNIVERSE_OFFSET + 1 THEN p.universe % 256
     ELSE IF i = E131_SEQUENCE_OFFSET THEN p.seq
     ELSE IF i >= E131_DATA_OFFSET THEN PayloadByte(p.pat, i - E131_DATA_OFFSET)
     ELSE 0]

\* a comparison that stops one byte short of the identifier
IdentifierMatches_11(bytes) ==
  \A k \in 1..11 : bytes[3 + k] = ACN_PACKET_IDENTIFIER[k]

\* memcmp(packet + 4, ACN_PACKET_IDENTIFIER, 12) == 0
IdentifierMatches(bytes) ==
  \A k \in 1..12 : bytes[3 + k] = ACN_PACKET_IDENTIFIER[k]

UniverseOf_lowByte(bytes) == bytes[E131_UNIVERSE_OFFSET + 1]

\* (packet[E131_UNIVERSE_OFFSET] << 8) | packet[E131_UNIVERSE_OFFSET + 1]
UniverseOf(bytes) ==
  bytes[E131_UNIVERSE_OFFSET] * 256 + bytes[E131_UNIVERSE_OFFSET + 1]

\* updateLEDsFromDMX: returns the three strips
updateLEDsFromDMX(bytes, start, enabled, priority, l1, l2, l3) ==
  IF ~enabled \/ ~priority
    THEN [l1 |-> l1, l2 |-> l2, l3 |-> l3]
    ELSE LET dmx(k) == bytes[E131_DATA_OFFSET + k]
             i1 == start - 1
             i2 == i1 + NUM_LEDS_1 * 3
             i3 == i2 + NUM_LEDS_2 * 3
             strip(n, base) ==
               [i \in 0..(n - 1) |->
                  CRGB(dmx(base + i * 3), dmx(base + i * 3 + 1), dmx(base + i * 3 + 2))]
         IN [l1 |-> strip(NUM_LEDS_1, i1),
             l2 |-> strip(NUM_LEDS_2, i2),
             l3 |-> strip(NUM_LEDS_3, i3)]

PayloadCovers_startOnly(dmxLength, start) == dmxLength >= start

\* the indices of dmxData that the three loops of updateLEDsFromDMX read
DmxIndicesRead(start) ==
  LET i1 == start - 1
      i2 == i1 + NUM_LEDS_1 * 3
      i3 == i2 + NUM_LEDS_2 * 3
      strip(n, base) == { base + (i * 3) + c : i \in 0..(n - 1), c \in 0..2 }
  IN strip(NUM_LEDS_1, i1) \cup strip(NUM_LEDS_2, i2) \cup strip(NUM_LEDS_3, i3)

\* step 4 of the validation: the payload length test of processSACNPacket
PayloadCovers(dmxLength, start) == dmxLength >= start + (TOTAL_LEDS * 3)

\* processSACNPacket(packet, length): the result and the state it leaves
processSACNPacket(bytes, length) ==
  LET same == [ok |-> FALSE, seq |-> sacnSequence, data |-> lastSacnData,
               l1 |-> leds1, l2 |-> leds2, l3 |-> leds3]
  IN
  IF length < E131_DATA_OFFSET THEN same
  ELSE IF ~IdentifierMatches(bytes) THEN same
  ELSE IF UniverseOf(bytes) # sacnUniverse THEN same
  ELSE
    LET sequence == bytes[E131_SEQUENCE_OFFSET]
        dmxLength == length - E131_DATA_OFFSET
    IN IF PayloadCovers(dmxLength, sacnStartAddress)
         THEN LET n == Min(dmxLength, DMX_SLOTS)
                  upd == updateLEDsFromDMX(bytes, sacnStartAddress, sacnEnabled,
                                           sacnPriority, leds1, leds2, leds3)
              IN [ok |-> TRUE, seq |-> sequence,
                  data |-> [k \in 0..(DMX_SLOTS - 1) |->
                              IF k < n THEN bytes[E131_DATA_OFFSET + k]
                                       ELSE lastSacnData[k]],
                  l1 |-> upd.l1, l2 |-> upd.l2, l3 |-> upd.l3]
         ELSE [same EXCEPT !.seq = sequence]

SacnTimedOut_half(active, last) == active /\ (now - last > SACN_TIMEOUT_MS \div 2)

\* the polled timeout test of handleSACNPackets
SacnTimedOut(active, last) == active /\ (now - last > SACN_TIMEOUT_MS)

\* handleSACNPackets with packet p read from the socket (NoPacket: none)
handleSACNPackets(p) ==
  IF ~sacnEnabled \/ ~wifiConnected
    THEN /\ rx' = NoPacket
         /\ rxAccepted' = FALSE
         /\ UNCHANGED << lastSacnPacket, lastSacnData, sacnActive, sacnSequence,
                         sacnPriority, leds1, leds2, leds3 >>
    ELSE LET bytesRead == Min(p.len, E131_PACKET_SIZE)
         IN \E r \in { IF bytesRead > 0
                         THEN processSACNPacket(PacketBytes(p), bytesRead)
                         ELSE [ok |-> FALSE, seq |-> sacnSequence,
                               data |-> lastSacnData,
                               l1 |-> leds1, l2 |-> leds2, l3 |-> leds3] } :
              LET last == IF r.ok THEN now ELSE lastSacnPacket
                  active == IF r.ok THEN TRUE ELSE sacnActive
                  prio == IF r.ok THEN TRUE ELSE sacnPriority
                  expired == SacnTimedOut(active, last)
              IN /\ rx' = p
                 /\ rxAccepted' = r.ok
                 /\ sacnSequence' = r.seq
                 /\ lastSacnData' = r.data
                 /\ leds1' = r.l1
                 /\ leds2' = r.l2
                 /\ leds3' = r.l3
                 /\ lastSacnPacket' = last
                 /\ sacnActive' = IF expired THEN FALSE ELSE active
                 /\ sacnPriority' = IF expired THEN FALSE ELSE prio

-----------------------------------------------------------------------------
(* UDP JSON datagrams.  json: the text is a JSON document (for the handler: *)
(* deserializeJson succeeded); has: the keys the document holds; a key     *)
(* that is absent reads as 0 (ArduinoJson); len: the bytes of the datagram. *)
NoDatagram == [json |-> FALSE, action |-> "", commandId |-> "", has |-> {},
               r |-> 0, g |-> 0, b |-> 0, ledIndex |-> 0, brightness |-> 0,
               leds |-> << >>, len |-> 0]

Datagram(action, has, r, g, b, ledIndex, brightness, ledsArr) ==
  [json |-> TRUE, action |-> action, commandId |-> "id", has |-> has,
   r |-> r, g |-> g, b |-> b, ledIndex |-> ledIndex, brightness |-> brightness,
   leds |-> ledsArr, len |-> 100]

\* char incomingPacket[255]
INCOMING_PACKET_SIZE == 255

\* int len = udp.read(incomingPacket, 255): the bytes copied, which is the
\* index of incomingPacket[len] = 0
udp_read_len(d) == Min(d.len, INCOMING_PACKET_SIZE)

\* udp.read(incomingPacket, 255) and String(incomingPacket): of a datagram
\* longer than the buffer the first 255 bytes are kept, and the beginning of
\* a JSON document is not a JSON document.  (The terminator written at
\* incomingPacket[len] lies one byte behind the array when len = 255; the
\* array is followed by a byte of padding on this target.)
udp_read(d) == IF d.len > INCOMING_PACKET_SIZE THEN [d EXCEPT !.json = FALSE] ELSE d

JInt(d, key, value) == IF key \in d.has THEN value ELSE 0
JIntOr(d, key, value, dflt) == IF key \in d.has THEN value ELSE dflt

NoResponse == [commandId |-> "", result |-> ""]
sendResponse(commandId, result) == [commandId |-> commandId, result |-> result]

\* the pixel of fixture index i in strip order (strip 1, strip 2, strip 3)
Pixel(l1, l2, l3, i) ==
  IF i < NUM_LEDS_1 THEN l1[i]
  ELSE IF i < NUM_LEDS_1 + NUM_LEDS_2 THEN l2[i - NUM_LEDS_1]
  ELSE l3[i - NUM_LEDS_1 - NUM_LEDS_2]

Strips(l1, l2, l3) == [l1 |-> l1, l2 |-> l2, l3 |-> l3]

\* the test at the head of setAllLEDColor and setStripColor
SacnHasPriority == sacnPriority /\ sacnActive

\* setAllLEDColor(r, g, b) on strips s: the strips and currentColor afterwards
setAllLEDColor(s, color, r, g, b) ==
  IF SacnHasPriority
    THEN [s |-> s, color |-> color]
    ELSE [s |-> Strips(fill_solid(NUM_LEDS_1, CRGB(r, g, b)),
                       fill_solid(NUM_LEDS_2, CRGB(r, g, b)),
                       fill_solid(NUM_LEDS_3, CRGB(r, g, b))),
          color |-> CRGB(r, g, b)]

setIndividualLED_first(s, ledIndex, r, g, b) == [s EXCEPT !.l1[0] = CRGB(r, g, b)]

\* setIndividualLED(ledIndex, ...) reaches its FastLED.show(): the call is the
\* last statement inside the range test
setIndividualLED_shows(ledIndex) == ledIndex >= 0 /\ ledIndex < TOTAL_LEDS

\* setIndividualLED(ledIndex, r, g, b) on strips s
setIndividualLED(s, ledIndex, r, g, b) ==
  IF ledIndex >= 0 /\ ledIndex < TOTAL_LEDS
    THEN IF ledIndex < NUM_LEDS_1
           THEN [s EXCEPT !.l1[ledIndex] = CRGB(r, g, b)]
         ELSE IF ledIndex < NUM_LEDS_1 + NUM_LEDS_2
           THEN [s EXCEPT !.l2[ledIndex - NUM_LEDS_1] = CRGB(r, g, b)]
         ELSE [s EXCEPT !.l3[ledIndex - NUM_LEDS_1 - NUM_LEDS_2] = CRGB(r, g, b)]
    ELSE s

\* the loop of the set_leds_array branch, entries i..Len(arr) of the array
RECURSIVE SetLedsArray(_, _, _)
SetLedsArray(s, arr, i) ==
  IF i >= Len(arr) \/ i >= TOTAL_LEDS THEN s
  ELSE LET e == arr[i + 1]
           s2 == IF Len(e) >= 3 THEN setIndividualLED(s, i, e[1], e[2], e[3]) ELSE s
       IN SetLedsArray(s2, arr, i + 1)

\* CHSV(hue, 255, 255) assigned to a CRGB (the library's spectrum conversion)
CHSV(hue) ==
  LET h == hue % 256
      section == h \div 86
      offset == (h % 86) * 3
  IN IF section = 0 THEN << 255 - offset, offset, 0 >>
     ELSE IF section = 1 THEN << 0, 255 - offset, offset >>
     ELSE << offset, 0, 255 - offset >>

\* rainbow(): the strips after the last pass (j = 255)
rainbow ==
  Strips([i \in 0..(NUM_LEDS_1 - 1) |-> CHSV(((i * 256) \div NUM_LEDS_1) + 255)],
         [i \in 0..(NUM_LEDS_2 - 1) |-> CHSV(((i * 256) \div NUM_LEDS_2) + 255 + 85)],
         [i \in 0..(NUM_LEDS_3 - 1) |-> CHSV(((i * 256) \div NUM_LEDS_3) + 255 + 170)])

\* scannerEffect and pulseEffect both end with "clear all" and show
AllBlack ==
  Strips(fill_solid(NUM_LEDS_1, Black), fill_solid(NUM_LEDS_2, Black),
         fill_solid(NUM_LEDS_3, Black))

\* constrain(x, lo, hi)
constrain(x, lo, hi) == IF x < lo THEN lo ELSE IF x > hi THEN hi ELSE x

ColourActions ==
  { "set_led_color", "set_individual_led", "set_leds_array", "scanner", "pulse",
    "rainbow" }

\* the strips after the branch of processNetworkCommand that d selects
CommandStrips(d, s) ==
  LET a == d.action
      r == JInt(d, "r", d.r)
      g == JInt(d, "g", d.g)
      b == JInt(d, "b", d.b)
  IN IF ~d.json THEN s
     ELSE IF a = "set_led_color" THEN setAllLEDColor(s, currentColor, r, g, b).s
     ELSE IF a = "set_individual_led"
       THEN setIndividualLED(s, JInt(d, "ledIndex", d.ledIndex), r, g, b)
     ELSE IF a = "set_leds_array" /\ "leds" \in d.has
       THEN SetLedsArray(s, d.leds, 0)
     ELSE IF a = "rainbow" THEN rainbow
     ELSE IF a \in {"scanner", "pulse"} THEN AllBlack
     ELSE s

CommandResponse_always(d) == sendResponse(d.commandId, "Unknown action")

\* the response datagram of the branch of processNetworkCommand that d selects
CommandResponse(d) ==
  LET a == d.action
  IN IF ~d.json THEN NoResponse
     ELSE IF a = "discovery" THEN sendResponse(d.commandId, "discovery")
     ELSE IF a = "set_led_color" THEN sendResponse(d.commandId, "LED color set")
     ELSE IF a = "set_brightness" THEN sendResponse(d.commandId, "Brightness set")
     ELSE IF a = "set_individual_led"
       THEN sendResponse(d.commandId, "Individual LED set")
     ELSE IF a = "set_leds_array"
       THEN IF "leds" \in d.has
              THEN sendResponse(d.commandId, "LED array set")
              ELSE sendResponse(d.commandId, "Invalid LED array format")
     ELSE IF a = "rainbow" THEN sendResponse(d.commandId, "Rainbow effect activated")
     ELSE IF a = "scanner" THEN sendResponse(d.commandId, "Scanner effect activated")
     ELSE IF a = "pulse" THEN sendResponse(d.commandId, "Pulse effect activated")
     ELSE IF a = "toggle_sacn"
       THEN sendResponse(d.commandId,
                         IF ~sacnEnabled THEN "SACN enabled" ELSE "SACN disabled")
     ELSE IF a = "status" THEN sendResponse(d.commandId, "status")
     ELSE NoResponse

\* processNetworkCommand(d)
processNetworkCommand(d) ==
  \E s2 \in { CommandStrips(d, Strips(leds1, leds2, leds3)) } :
     /\ leds1' = s2.l1
     /\ leds2' = s2.l2
     /\ leds3' = s2.l3
     /\ currentColor' =
          IF d.json /\ d.action = "set_led_color"
            THEN setAllLEDColor(Strips(leds1, leds2, leds3), currentColor,
                                JInt(d, "r", d.r), JInt(d, "g", d.g),
                                JInt(d, "b", d.b)).color
            ELSE currentColor
     /\ ledBrightness' = IF d.json /\ d.action = "set_brightness"
                           THEN constrain(JInt(d, "brightness", d.brightness), 0, 255)
                           ELSE ledBrightness
     /\ sacnEnabled' = IF d.json /\ d.action = "toggle_sacn"
                         THEN ~sacnEnabled ELSE sacnEnabled
     /\ udpOut' = CommandResponse(d)

-----------------------------------------------------------------------------
(* The inputs the model draws from *)
StartAddresses == { 1, 4 }

FullLen == E131_PACKET_SIZE
\* the shortest datagram the payload length test accepts for start address a
AcceptLen(a) == E131_DATA_OFFSET + a + TOTAL_LEDS * 3

Pkt(len, badAt, universe, seq, pat) ==
  [len |-> len, badAt |-> badAt, universe |-> universe, seq |-> seq, pat |-> pat]

SacnPackets ==
  { Pkt(FullLen, 0, 1, 1, 1), Pkt(FullLen, 0, 1, 0, 2), Pkt(FullLen, 0, 1, 7, 2),
    Pkt(FullLen, 0, 2, 7, 1), Pkt(FullLen, 0, 257, 7, 1),
    Pkt(FullLen, 1, 1, 7, 2), Pkt(FullLen, 12, 1, 7, 2), Pkt(FullLen, 6, 2, 7, 2),
    Pkt(E131_DATA_OFFSET - 1, 0, 1, 7, 2), Pkt(30, 0, 1, 7, 2),
    Pkt(AcceptLen(1), 0, 1, 1, 2), Pkt(AcceptLen(1) - 1, 0, 1, 7, 2),
    Pkt(AcceptLen(4), 0, 1, 1, 2), Pkt(E131_DATA_OFFSET, 0, 1, 7, 1) }

\* start addresses up to the last one of the DMX universe, and packets whose
\* payload ends at, one byte and two bytes before the length the test asks for
PayloadStartAddresses == { 1, 4, DMX_SLOTS - TOTAL_LEDS * 3, DMX_SLOTS - TOTAL_LEDS * 3 + 1,
                           DMX_SLOTS }
PayloadPackets ==
  { Pkt(AcceptLen(a) - d, 0, 1, 1, 1) :
      a \in { 1, 4, DMX_SLOTS - TOTAL_LEDS * 3 }, d \in 0..2 }
    \cup { Pkt(FullLen, 0, 1, 2, 2), Pkt(FullLen + 62, 0, 1, 3, 2) }

SacnPacketsFew == { Pkt(FullLen, 0, 1, 1, 1), Pkt(FullLen, 12, 1, 7, 2) }

\* the array of a set_leds_array that sets every pixel
AllLedsArray == [i \in 1..TOTAL_LEDS |-> << i, 2 * i, 3 * i >>]

UdpDatagrams ==
  { Datagram("set_led_color", {"r", "g", "b"}, 255, 0, 0, 0, 0, << >>),
    Datagram("set_led_color", {"r"}, 300, 0, 0, 0, 0, << >>),
    Datagram("set_individual_led", {"ledIndex", "r", "g", "b"}, 0, 0, 255, 14, 0, << >>),
    Datagram("set_individual_led", {"ledIndex", "b"}, 0, 0, 9, 30, 0, << >>),
    Datagram("set_individual_led", {"ledIndex", "b"}, 0, 0, 9, -1, 0, << >>),
    Datagram("set_leds_array", {"leds"}, 0, 0, 0, 0, 0,
             << << 1, 2, 3 >>, << 4, 5 >>, << 7, 8, 9 >> >>),
    Datagram("set_leds_array", {}, 0, 0, 0, 0, 0, << >>),
    [Datagram("set_leds_array", {"leds"}, 0, 0, 0, 0, 0, AllLedsArray) EXCEPT !.len = 400],
    Datagram("rainbow", {}, 0, 0, 0, 0, 0, << >>),
    Datagram("scanner", {}, 0, 0, 0, 0, 0, << >>),
    Datagram("pulse", {"r"}, 10, 0, 0, 0, 0, << >>),
    Datagram("set_brightness", {"brightness"}, 0, 0, 0, 0, 300, << >>),
    Datagram("toggle_sacn", {}, 0, 0, 0, 0, 0, << >>),
    Datagram("status", {}, 0, 0, 0, 0, 0, << >>),
    Datagram("discovery", {}, 0, 0, 0, 0, 0, << >>),
    Datagram("warp_drive", {}, 0, 0, 0, 0, 0, << >>),
    [NoDatagram EXCEPT !.action = "garbage"] }

UdpDatagramsFew ==
  { Datagram("set_led_color", {"r", "g", "b"}, 255, 0, 0, 0, 0, << >>),
    Datagram("toggle_sacn", {}, 0, 0, 0, 0, 0, << >>) }

-----------------------------------------------------------------------------
(* loop() of the polyinoculator, one action per statement group.  setup()   *)
(* is taken to have brought WiFi up and opened both sockets.                *)

otherPolyVars == << now, wifiStatus, wifiConnected, lastWifiStatus, sacnUniverse,
                    sacnStartAddress >>

\* if (wifiConnected) handleSACNPackets();   with the packets of set P arriving
LoopSacn(P) ==
  /\ pc = "sacn"
  /\ pc' = "udp"
  /\ IF wifiConnected
       THEN \E p \in (IF wifiStatus THEN P ELSE {}) \cup {NoPacket} :
              handleSACNPackets(p)
       ELSE /\ rx' = NoPacket
            /\ rxAccepted' = FALSE
            /\ UNCHANGED << lastSacnPacket, lastSacnData, sacnActive, sacnSequence,
                            sacnPriority, leds1, leds2, leds3 >>
  /\ UNCHANGED << otherPolyVars, sacnEnabled, currentColor, ledBrightness, cmd, udpOut >>
  /\ UNCHANGED << triVars, otherBoardVars >>

\* handleUDPCommands()   with the datagrams of set D arriving
LoopUdp(D) ==
  /\ pc = "udp"
  /\ pc' = "wifi"
  /\ \E d \in (IF wifiStatus THEN D ELSE {}) \cup {NoDatagram} :
       /\ cmd' = d
       /\ IF d = NoDatagram
            THEN /\ udpOut' = NoResponse
                 /\ UNCHANGED << leds1, leds2, leds3, currentColor, ledBrightness,
                                 sacnEnabled >>
            ELSE processNetworkCommand(udp_read(d))
  /\ rx' = NoPacket
  /\ rxAccepted' = FALSE
  /\ UNCHANGED << otherPolyVars, lastSacnPacket, lastSacnData, sacnActive, sacnSequence,
                  sacnPriority >>
  /\ UNCHANGED << triVars, otherBoardVars >>

\* the WiFi check at the end of loop()
LoopWifi ==
  /\ pc = "wifi"
  /\ pc' = "sacn"
  /\ IF wifiStatus # lastWifiStatus
       THEN /\ wifiConnected' = wifiStatus
            /\ lastWifiStatus' = wifiStatus
            /\ leds1' = fill_solid(NUM_LEDS_1, IF wifiStatus THEN Black ELSE Red)
            /\ leds2' = fill_solid(NUM_LEDS_2, IF wifiStatus THEN Black ELSE Red)
            /\ leds3' = fill_solid(NUM_LEDS_3, IF wifiStatus THEN Black ELSE Red)
       ELSE UNCHANGED << wifiConnected, lastWifiStatus, leds1, leds2, leds3 >>
  /\ cmd' = NoDatagram
  /\ udpOut' = NoResponse
  /\ UNCHANGED << now, wifiStatus, sacnEnabled, sacnUniverse, sacnStartAddress,
                  lastSacnPacket, lastSacnData, sacnActive, sacnSequence, sacnPriority,
                  currentColor, ledBrightness, rx, rxAccepted >>
  /\ UNCHANGED << triVars, otherBoardVars >>

\* delay(1) at the end of loop(): time passes between two iterations
Tick ==
  /\ pc = "sacn"
  /\ now < MaxTicks * TickMs
  /\ now' = now + TickMs
  /\ UNCHANGED << pc, wifiStatus, wifiConnected, lastWifiStatus, sacnEnabled,
                  sacnUniverse, sacnStartAddress, lastSacnPacket, lastSacnData,
                  sacnActive, sacnSequence, sacnPriority, leds1, leds2, leds3,
                  currentColor, ledBrightness, rx, rxAccepted, cmd, udpOut >>
  /\ UNCHANGED << triVars, otherBoardVars >>

\* the access point goes away or comes back
WifiChange ==
  /\ pc = "sacn"
  /\ wifiStatus' = ~wifiStatus
  /\ UNCHANGED << pc, now, wifiConnected, lastWifiStatus, sacnEnabled,
                  sacnUniverse, sacnStartAddress, lastSacnPacket, lastSacnData,
                  sacnActive, sacnSequence, sacnPriority, leds1, leds2, leds3,
                  currentColor, ledBrightness, rx, rxAccepted, cmd, udpOut >>
  /\ UNCHANGED << triVars, otherBoardVars >>

\* the state setup() leaves
SetupPoly(addresses) ==
  /\ pc = "sacn"
  /\ now = 0
  /\ wifiStatus = TRUE
  /\ wifiConnected = TRUE
  /\ lastWifiStatus = FALSE
  /\ sacnEnabled = TRUE
  /\ sacnUniverse = 1
  /\ sacnStartAddress \in addresses
  /\ lastSacnPacket = 0
  /\ lastSacnData = [k \in 0..(DMX_SLOTS - 1) |-> 0]
  /\ sacnActive = FALSE
  /\ sacnSequence = 0
  /\ sacnPriority = FALSE
  /\ leds1 = fill_solid(NUM_LEDS_1, Black)
  /\ leds2 = fill_solid(NUM_LEDS_2, Black)
  /\ leds3 = fill_solid(NUM_LEDS_3, Black)
  /\ currentColor = Black
  /\ ledBrightness = 128
  /\ rx = NoPacket
  /\ rxAccepted = FALSE
  /\ cmd = NoDatagram
  /\ udpOut = NoResponse

InitPoly == SetupPoly(StartAddresses)

-----------------------------------------------------------------------------
(***************************************************************************)
(* Part II: src/main.cpp, the tricorder firmware                           *)
(***************************************************************************)
NUM_LEDS == 3
FRAME_DELAY_MS == 33
VIDEO_BUFFER_SIZE == 65536
MAX_FRAMES == 30
LED_QUEUE_LENGTH == 10
VIDEO_QUEUE_LENGTH == 5
FILENAME_SIZE == 64
QUEUE_WAIT_MS == 100
LOOP_DELAY_MS == 10

(* Strings are sequences of characters; Code gives the byte of a character. *)
Code ==
  ("." :> 46 @@ "/" :> 47 @@ "0" :> 48 @@ "1" :> 49 @@ "B" :> 66 @@
   "E" :> 69 @@ "G" :> 71 @@ "J" :> 74 @@ "P" :> 80 @@ "_" :> 95 @@
   "a" :> 97 @@ "b" :> 98 @@ "c" :> 99 @@ "d" :> 100 @@ "e" :> 101 @@
   "f" :> 102 @@ "g" :> 103 @@ "h" :> 104 @@ "i" :> 105 @@ "j" :> 106 @@
   "l" :> 108 @@ "m" :> 109 @@ "n" :> 110 @@ "o" :> 111 @@ "p" :> 112 @@
   "r" :> 114 @@ "s" :> 115 @@ "t" :> 116 @@ "v" :> 118 @@ "x" :> 120)

Str_videos == << "/", "v", "i", "d", "e", "o", "s" >>
Str_slash == << "/" >>
Str_jpg == << ".", "j", "p", "g" >>
Str_jpeg == << ".", "j", "p", "e", "g" >>
Str_JPG == << ".", "J", "P", "G" >>
Str_JPEG == << ".", "J", "P", "E", "G" >>
Str_001 == << "_", "0", "0", "1" >>
Str_frame_001 == << "_", "f", "r", "a", "m", "e", "_", "0", "0", "1" >>
Empty == << >>

\* String::endsWith
EndsWith(s, suffix) ==
  /\ Len(s) >= Len(suffix)
  /\ SubSeq(s, Len(s) - Len(suffix) + 1, Len(s)) = suffix

\* String::indexOf(sub): the first 0-based position of sub in s, -1 if none
IndexOf(s, sub) ==
  LET hits == { k \in 0..(Len(s) - Len(sub)) : SubSeq(s, k + 1, k + Len(sub)) = sub }
  IN IF hits = {} THEN -1 ELSE CHOOSE k \in hits : \A m \in hits : k <= m

\* the test for a JPEG file name used by playVideo
IsJpegName(name) ==
  EndsWith(name, Str_jpg) \/ EndsWith(name, Str_jpeg)
    \/ EndsWith(name, Str_JPG) \/ EndsWith(name, Str_JPEG)

\* String::operator> : strcmp(a, b) > 0 on the bytes: the first position
\* where the two differ decides, and a proper prefix is the smaller
StrGreater(a, b) ==
  LET diffs == { k \in 1..Min(Len(a), Len(b)) : a[k] # b[k] }
  IN IF diffs = {} THEN Len(a) > Len(b)
     ELSE \E k \in diffs : /\ \A m \in diffs : k <= m
                           /\ Code[a[k]] > Code[b[k]]

\* F applied to the value of x, with x computed once
Bind(x, F(_)) == CHOOSE r \in { F(y) : y \in { x } } : TRUE

\* strncpy(dst, src, sizeof(dst) - 1) and the terminator in the last byte
CopyFilename(name) == SubSeq(name, 1, Min(Len(name), FILENAME_SIZE - 1))

Str_dot == << "." >>
Str_anim == << "a", "n", "i", "m" >>
Str_logo == << "l", "o", "g", "o" >>
Str_nothing == << "n", "o", "t", "h", "i", "n", "g" >>
File_a_jpg == << "a", ".", "j", "p", "g" >>
File_b_jpg == << "b", ".", "j", "p", "g" >>
File_c_jpg == << "c", ".", "j", "p", "g" >>
File_bad_jpg == << "b", "a", "d", ".", "j", "p", "g" >>
File_b_jpeg == << "b", ".", "j", "p", "e", "g" >>
File_B_JPG == << "B", ".", "J", "P", "G" >>
File_a_jpeg == << "a", ".", "j", "p", "e", "g" >>
File_n_txt == << "n", ".", "t", "x", "t" >>
File_logo_jpg == << "l", "o", "g", "o", ".", "j", "p", "g" >>

\* String::lastIndexOf("."), 0-based, -1 if none
LastIndexOfDot(s) ==
  LET hits == { k \in 0..(Len(s) - 1) : s[k + 1] = "." }
  IN IF hits = {} THEN -1 ELSE CHOOSE k \in hits : \A m \in hits : m <= k

-----------------------------------------------------------------------------
(* The SD card.  The card holds /videos with the files of VideosListing and *)
(* the folder /videos/anim, whose enumeration order is the variable sdAnim. *)
(* What happens when a file is read depends on the file:                    *)
(*   "ok"        opens, fits the buffer, decodes                            *)
(*   "noopen"    SD.open fails                                              *)
(*   "toolarge"  size() exceeds videoBufferSize                             *)
(*   "empty"     read returns 0 bytes                                       *)
(*   "badheader" jpeg.openRAM fails                                         *)
(*   "baddata"   jpeg.decode fails after the screen was cleared             *)
FileStatus(name) ==
  CASE name = File_b_jpeg -> "noopen"
    [] name = File_a_jpeg -> "toolarge"
    [] name = File_B_JPG -> "badheader"
    [] name = File_bad_jpg -> "baddata"
    [] OTHER -> "ok"

AnimPool == { File_a_jpg, File_b_jpg, File_c_jpg, File_b_jpeg, File_bad_jpg,
              File_B_JPG, File_a_jpeg, File_n_txt }

VideosListing == << File_logo_jpg >>
AnimFolder == Str_videos \o Str_slash \o Str_anim

Range(f) == { f[k] : k \in DOMAIN f }

\* the last path component
BaseName(path) ==
  LET slashes == { k \in 1..Len(path) : path[k] = "/" }
  IN IF slashes = {} THEN path
     ELSE SubSeq(path, (CHOOSE k \in slashes : \A m \in slashes : m <= k) + 1, Len(path))

IsDirectory(path, anim) == path = AnimFolder \/ path = Str_videos

\* SD.exists
SdExists(path, anim) ==
  \/ IsDirectory(path, anim)
  \/ \E k \in DOMAIN VideosListing : path = Str_videos \o Str_slash \o VideosListing[k]
  \/ \E k \in DOMAIN anim : path = AnimFolder \o Str_slash \o anim[k]

\* File::size
FileSize(path) ==
  CASE FileStatus(BaseName(path)) = "toolarge" -> VIDEO_BUFFER_SIZE + 1
    [] FileStatus(BaseName(path)) = "empty" -> 0
    [] OTHER -> 2048

videoBufferSize_double == 2 * VIDEO_BUFFER_SIZE

\* the size of the buffer setup() allocated
videoBufferSize == VIDEO_BUFFER_SIZE

\* SD.open(path, FILE_READ) gives a file
SdOpens(path, anim) ==
  SdExists(path, anim) /\ FileStatus(BaseName(path)) # "noopen"

-----------------------------------------------------------------------------
(* The playback state, as the record the functions below transform.        *)
(* screen is what the TFT shows; attempted is the log of the frames that   *)
(* showVideoFrame tried to load since the last playVideo call.             *)
Screen(kind, path) == [kind |-> kind, path |-> path]
NoFrames == [i \in 0..(MAX_FRAMES - 1) |-> Empty]
Attempt(frame, path, anim) == [frame |-> frame, path |-> path, anim |-> anim]

\* the log keeps the last MaxAttemptLog entries
LogAttempt(log, a) ==
  IF Len(log) < MaxAttemptLog THEN Append(log, a) ELSE Append(Tail(log), a)

stopVideo(v) ==
  IF v.videoPlaying
  THEN [v EXCEPT !.videoPlaying = FALSE, !.videoLooping = FALSE,
                 !.currentFrame = 0, !.totalFrames = 0,
                 !.isAnimatedSequence = FALSE, !.frameFiles = NoFrames,
                 !.screen = Screen("stopped", Empty), !.currentVideo = Empty]
  ELSE v

\* the branch of showVideoFrame taken when SD.open fails
OpenFailed(v) ==
  Bind([v EXCEPT !.currentFrame = @ + 1],
       LAMBDA v1 : IF v1.currentFrame >= v1.totalFrames
                   THEN IF v1.videoLooping THEN [v1 EXCEPT !.currentFrame = 0]
                        ELSE stopVideo(v1)
                   ELSE v1)

\* the read and decode part of showVideoFrame
DecodeFrame(v, path) ==
  LET status == FileStatus(BaseName(path))
      cleared == IF v.currentFrame = 0 \/ v.isAnimatedSequence
                 THEN [v EXCEPT !.screen = Screen("black", Empty)] ELSE v
  IN IF FileSize(path) > videoBufferSize THEN v
     ELSE IF FileSize(path) = 0 THEN v
     ELSE IF status = "badheader" THEN [v EXCEPT !.videoBuffer = path]
     ELSE IF status = "baddata" THEN [cleared EXCEPT !.videoBuffer = path]
     ELSE [v EXCEPT !.screen = Screen("image", path), !.videoBuffer = path]

showVideoFrame(v, anim) ==
  IF ~v.videoPlaying \/ v.totalFrames = 0 THEN v
  ELSE IF v.currentFrame < 0 \/ v.currentFrame >= v.totalFrames THEN v
  ELSE Bind([v EXCEPT !.attempted =
               LogAttempt(@, Attempt(v.currentFrame, v.frameFiles[v.currentFrame],
                                     v.isAnimatedSequence))],
            LAMBDA v1 : IF ~SdOpens(v.frameFiles[v.currentFrame], anim)
                        THEN OpenFailed(v1)
                        ELSE DecodeFrame(v1, v.frameFiles[v.currentFrame]))

EndOfAnimation_stop(v) ==
  IF v.currentFrame >= v.totalFrames THEN stopVideo(v) ELSE v

EndOfAnimation_restart(v) ==
  IF v.currentFrame >= v.totalFrames THEN [v EXCEPT !.currentFrame = 0] ELSE v

\* the end-of-animation test of updateVideoPlayback
EndOfAnimation(v) ==
  IF v.currentFrame >= v.totalFrames
  THEN IF v.videoLooping THEN [v EXCEPT !.currentFrame = 0] ELSE stopVideo(v)
  ELSE v

updateVideoPlayback(v, anim) ==
  IF ~v.videoPlaying \/ v.totalFrames = 0 THEN v
  ELSE IF ~v.isAnimatedSequence
  THEN IF v.currentFrame = 0
       THEN [showVideoFrame(v, anim) EXCEPT !.currentFrame = 1]
       ELSE v
  ELSE IF v.frameAge >= FRAME_DELAY_MS
  THEN Bind(showVideoFrame(v, anim),
            LAMBDA shown :
              Bind([shown EXCEPT !.frameAge = 0, !.currentFrame = @ + 1], EndOfAnimation))
  ELSE v

CollectFrames_uncapped(listing, folderPath) ==
  [k \in 1..Len(SelectSeq(listing, IsJpegName)) |->
     folderPath \o Str_slash \o SelectSeq(listing, IsJpegName)[k]]

\* the collection loop of playVideo: the JPEG files of the folder, in the
\* order of enumeration, at most MAX_FRAMES of them
CollectFrames(listing, folderPath) ==
  LET jpegs == SelectSeq(listing, IsJpegName)
  IN [k \in 1..Min(Len(jpegs), MAX_FRAMES) |-> folderPath \o Str_slash \o jpegs[k]]

Swap(f, i, j) == [f EXCEPT ![i] = f[j], ![j] = f[i]]

\* the two nested loops of the sort in playVideo, on 1-based positions
RECURSIVE SortInner(_, _, _)
SortInner(f, i, j) ==
  IF j > Len(f) THEN f
  ELSE Bind(IF StrGreater(f[i], f[j]) THEN Swap(f, i, j) ELSE f,
            LAMBDA g : SortInner(g, i, j + 1))

RECURSIVE SortOuter(_, _)
SortOuter(f, i) ==
  IF i > Len(f) - 1 THEN f
  ELSE Bind(SortInner(f, i, i + 1), LAMBDA g : SortOuter(g, i + 1))

SortFrames_unsorted(f) == f

SortFrames(f) == IF Len(f) > 1 THEN SortOuter(f, 1) ELSE f

\* frameFiles[0 .. Len(frames)-1] overwritten, the other slots kept
StoreFrames(old, frames) ==
  [i \in 0..((IF Len(frames) > MAX_FRAMES THEN Len(frames) ELSE MAX_FRAMES) - 1) |->
     IF i < Len(frames) THEN frames[i + 1] ELSE old[i]]

\* the state playVideo sets when playback starts
StartPlayback(v, filename, loop, frames, animated) ==
  [v EXCEPT !.frameFiles = StoreFrames(@, frames), !.totalFrames = Len(frames),
            !.isAnimatedSequence = animated, !.videoPlaying = TRUE,
            !.videoLooping = loop, !.currentVideo = filename,
            !.currentFrame = 0, !.frameAge = 0, !.attempted = << >>]

\* the search of /videos for a file whose name starts with filename
RECURSIVE BestMatch(_, _, _)
BestMatch(listing, filename, bestMatch) ==
  IF listing = << >> THEN bestMatch
  ELSE LET candidateFile == Head(listing)
           better == /\ IsJpegName(candidateFile)
                     /\ IndexOf(candidateFile, filename) = 0
                     /\ \/ bestMatch = Empty
                        \/ candidateFile = filename \o Str_jpg
                        \/ candidateFile = filename \o Str_jpeg
                        \/ IndexOf(candidateFile, Str_001) > 0
                        \/ IndexOf(candidateFile, Str_frame_001) > 0
       IN BestMatch(Tail(listing), filename,
                    IF better THEN candidateFile ELSE bestMatch)

\* the single file mode of playVideo
PlaySingleFile(v, filename, loop, anim) ==
  LET found == BestMatch(VideosListing, filename, Empty)
      actualFile == IF IsJpegName(filename) THEN filename
                    ELSE IF found # Empty THEN found
                    ELSE filename \o Str_jpg
      fullPath == Str_videos \o Str_slash \o actualFile
  IN IF ~SdExists(fullPath, anim) THEN v
     ELSE StartPlayback(v, filename, loop, << fullPath >>, FALSE)

playVideo_noStop(v, filename, loop, sd, anim) ==
  IF ~sd THEN v
  ELSE Bind([v EXCEPT !.totalFrames = 0, !.isAnimatedSequence = FALSE],
         LAMBDA v0 :
           IF /\ SdExists(Str_videos \o Str_slash \o filename, anim)
              /\ IsDirectory(Str_videos \o Str_slash \o filename, anim)
           THEN Bind(SortFrames(CollectFrames(anim, Str_videos \o Str_slash \o filename)),
                  LAMBDA frames :
                    IF Len(frames) > 0
                    THEN StartPlayback(v0, filename, loop, frames, TRUE)
                    ELSE v0)
           ELSE PlaySingleFile(v0, filename, loop, anim))

playVideo(v, filename, loop, sd, anim) ==
  IF ~sd THEN v
  ELSE Bind([stopVideo(v) EXCEPT !.totalFrames = 0, !.isAnimatedSequence = FALSE],
         LAMBDA v0 :
           IF /\ SdExists(Str_videos \o Str_slash \o filename, anim)
              /\ IsDirectory(Str_videos \o Str_slash \o filename, anim)
           THEN Bind(SortFrames(CollectFrames(anim, Str_videos \o Str_slash \o filename)),
                  LAMBDA frames :
                    IF Len(frames) > 0
                    THEN StartPlayback(v0, filename, loop, frames, TRUE)
                    ELSE v0)
           ELSE PlaySingleFile(v0, filename, loop, anim))

\* the image file displayStaticImage settles on: the first of the
\* candidates that exists, Empty when none does
FirstExisting(candidates, anim) ==
  LET hits == { k \in DOMAIN candidates : SdExists(candidates[k], anim) }
  IN IF hits = {} THEN Empty
     ELSE candidates[CHOOSE k \in hits : \A m \in hits : k <= m]

Extensions == << Str_jpg, Str_JPG, Str_jpeg, Str_JPEG >>

\* the paths tried for one directory and one extension
WithExtension(dir, filename, ext) ==
  << dir \o filename \o ext >> \o
  (IF LastIndexOfDot(filename) > 0
     THEN << dir \o SubSeq(filename, 1, LastIndexOfDot(filename)) \o ext >>
     ELSE << >>)

WithExtensions(dir, filename) ==
  WithExtension(dir, filename, Extensions[1]) \o WithExtension(dir, filename, Extensions[2])
    \o WithExtension(dir, filename, Extensions[3]) \o WithExtension(dir, filename, Extensions[4])

ImageCandidates_exactOnly(filename) ==
  << Str_slash \o filename, Str_videos \o Str_slash \o filename >>

ImageCandidates(filename) ==
  << Str_slash \o filename, Str_videos \o Str_slash \o filename >>
    \o WithExtensions(Str_slash, filename)
    \o WithExtensions(Str_videos \o Str_slash, filename)

\* the read and decode part of displayStaticImage
LoadImage(v, fullPath, anim) ==
  IF fullPath = Empty THEN v
  ELSE IF ~SdOpens(fullPath, anim) \/ IsDirectory(fullPath, anim) THEN v
  ELSE IF FileSize(fullPath) = 0 \/ FileSize(fullPath) > videoBufferSize THEN v
  ELSE IF FileStatus(BaseName(fullPath)) = "badheader"
  THEN [v EXCEPT !.videoBuffer = fullPath]
  ELSE IF FileStatus(BaseName(fullPath)) = "baddata"
  THEN [v EXCEPT !.screen = Screen("black", Empty), !.videoBuffer = fullPath]
  ELSE [v EXCEPT !.screen = Screen("image", fullPath), !.videoBuffer = fullPath]

displayStaticImage(v, filename, sd, anim) ==
  IF ~sd THEN v
  ELSE Bind(FirstExisting(ImageCandidates(filename), anim),
            LAMBDA fullPath : LoadImage(stopVideo(v), fullPath, anim))

-----------------------------------------------------------------------------
(* The queues between the tasks *)
LedCommand(type, r, g, b, brightness, ledIndex, delayMs, duration) ==
  [type |-> type, r |-> r, g |-> g, b |-> b, brightness |-> brightness,
   ledIndex |-> ledIndex, delayMs |-> delayMs, duration |-> duration]
NoLedCommand == LedCommand("none", 0, 0, 0, 0, 0, 0, 0)
VideoCommand(type, filename, loop) == [type |-> type, filename |-> filename, loop |-> loop]
NoVideoCommand == VideoCommand("none", Empty, FALSE)

xQueueSend_unbounded(queue, item, length) == Append(queue, item)

\* xQueueSend once the queue has room or the wait is over: the item is
\* copied to the back unless the queue holds length items
xQueueSend(queue, item, length) ==
  IF Len(queue) < length THEN Append(queue, item) ELSE queue

xQueueReceive_newest(queue) ==
  [item |-> queue[Len(queue)], rest |-> SubSeq(queue, 1, Len(queue) - 1)]

\* xQueueReceive on a queue that holds an item
xQueueReceive(queue) == [item |-> Head(queue), rest |-> Tail(queue)]

-----------------------------------------------------------------------------
(* setup() of the tricorder: the queues are created, and after them the    *)
(* tasks.  boot.pc is "setup" before xQueueCreate, "halted" in the loop    *)
(* that follows a failed creation, "tasks" before xTaskCreatePinnedToCore  *)
(* and "running" once the three tasks exist and the startup effect is sent. *)
Boot(pc_, led, net, vid) == [pc |-> pc_, led |-> led, net |-> net, vid |-> vid]
Unbooted == Boot("setup", FALSE, FALSE, FALSE)
Booted == Boot("done", TRUE, TRUE, TRUE)

QueuesFailed_ledOnly(led, net, vid) == ~led

\* if (!ledCommandQueue || !networkCommandQueue || !videoCommandQueue)
QueuesFailed(led, net, vid) == ~led \/ ~net \/ ~vid

\* the tasks exist
TasksRunning == boot.pc \in { "running", "done" }

\* the record of who used which hardware
Untouched == [strip |-> {}, display |-> {}, udp |-> {}, playback |-> {},
              wifiConnected |-> {}, sdCardInitialized |-> {}]
TouchAll(t, who, whats) == [what \in DOMAIN t |-> IF what \in whats THEN t[what] \cup { who } ELSE t[what]]
Touch(t, who, what) == [t EXCEPT ![what] = @ \cup { who }]
\* what setup() does after it has created the tasks: it draws the
\* initialization screen, connects WiFi, sets wifiConnected, opens the UDP
\* socket, mounts the card and sets sdCardInitialized
SetupUses == { "display", "udp", "wifiConnected", "sdCardInitialized" }
AfterSetup == TouchAll(Untouched, "setup", SetupUses)

-----------------------------------------------------------------------------
(* ledTask *)
Idle == [kind |-> "recv", step |-> 0, command |-> NoLedCommand]
PULSE_DELAY_MS == 20

ScannerOrder_returnFromEnd ==
  [k \in 1..(2 * NUM_LEDS - 2) |-> IF k <= NUM_LEDS THEN k - 1 ELSE 2 * NUM_LEDS - k]

\* the pixel lit at each step of the scanner: 0 .. NUM_LEDS-1, NUM_LEDS-2 .. 1
ScannerOrder ==
  [k \in 1..(2 * NUM_LEDS - 2) |-> IF k <= NUM_LEDS THEN k - 1 ELSE 2 * NUM_LEDS - 1 - k]

ScannerFrame(color, i) == [fill_solid(NUM_LEDS, Black) EXCEPT ![i] = color]

\* CRGB::nscale8
nscale8(color, scale) ==
  << (color[1] * scale) \div 256, (color[2] * scale) \div 256, (color[3] * scale) \div 256 >>

\* the switch of ledTask up to the first delay of an effect
ApplyLedCommand(command, l, bright) ==
  CASE command.type = "SET_COLOR" ->
         [leds |-> fill_solid(NUM_LEDS, CRGB(command.r, command.g, command.b)),
          brightness |-> bright, run |-> Idle]
    [] command.type = "SET_BRIGHTNESS" ->
         [leds |-> l, brightness |-> constrain(command.brightness, 0, 255), run |-> Idle]
    [] command.type = "SET_INDIVIDUAL" ->
         [leds |-> IF command.ledIndex >= 0 /\ command.ledIndex < NUM_LEDS
                   THEN [l EXCEPT ![command.ledIndex] = CRGB(command.r, command.g, command.b)]
                   ELSE l,
          brightness |-> bright, run |-> Idle]
    [] command.type = "SCANNER_EFFECT" ->
         [leds |-> ScannerFrame(CRGB(command.r, command.g, command.b), ScannerOrder[1]),
          brightness |-> bright,
          run |-> [kind |-> "scanner", step |-> 1, command |-> command]]
    [] command.type = "PULSE_EFFECT" ->
         [leds |-> l, brightness |-> bright,
          run |-> [kind |-> "pulse", step |-> 0, command |-> command]]
    [] OTHER -> [leds |-> l, brightness |-> bright, run |-> Idle]

LedTaskWaiting_always == TRUE

\* ledTask is at its xQueueReceive: the switch of the previous command,
\* with every delay() of an effect, has come to its end
LedTaskWaiting == ledRun = Idle

\* xQueueReceive(ledCommandQueue, &command, portMAX_DELAY) returns a command
LedReceive ==
  /\ TasksRunning
  /\ LedTaskWaiting
  /\ ledQ # << >>
  /\ \E got \in { xQueueReceive(ledQ) } :
       \E out \in { ApplyLedCommand(got.item, leds, fastLedBrightness) } :
         /\ ledQ' = got.rest
         /\ ledApplied' = Append(ledApplied, got.item)
         /\ leds' = out.leds
         /\ fastLedBrightness' = out.brightness
         /\ ledRun' = out.run
  /\ touched' = Touch(touched, "ledTask", "strip")
  /\ UNCHANGED << polyVars, otherBoardVars, netVars, videoVars, ledSent >>

\* a delay() inside an effect ends
LedEffectStep ==
  /\ TasksRunning
  /\ ledRun # Idle
  /\ LET color == CRGB(ledRun.command.r, ledRun.command.g, ledRun.command.b)
     IN IF ledRun.kind = "scanner"
        THEN IF ledRun.step < Len(ScannerOrder)
             THEN /\ leds' = ScannerFrame(color, ScannerOrder[ledRun.step + 1])
                  /\ ledRun' = [ledRun EXCEPT !.step = @ + 1]
             ELSE /\ ledRun' = Idle
                  /\ UNCHANGED leds
        ELSE IF ledRun.step * PULSE_DELAY_MS < ledRun.command.duration
             THEN /\ \E scale \in 0..255 : leds' = fill_solid(NUM_LEDS, nscale8(color, scale))
                  /\ ledRun' = [ledRun EXCEPT !.step = @ + 1]
             ELSE /\ ledRun' = Idle
                  /\ UNCHANGED leds
  /\ touched' = Touch(touched, "ledTask", "strip")
  /\ UNCHANGED << polyVars, otherBoardVars, netVars, videoVars, ledQ, ledSent, ledApplied, fastLedBrightness >>

-----------------------------------------------------------------------------
(* networkTask *)
\* a datagram: json is whether deserializeJson accepts it; filename is the
\* value found under "parameters" or at the top level, Empty when absent
TriDatagram(json, action, commandId, r, g, b, filename, loop) ==
  [json |-> json, action |-> action, commandId |-> commandId,
   r |-> r, g |-> g, b |-> b, filename |-> filename, loop |-> loop, len |-> 100]
NoTriDatagram == TriDatagram(FALSE, "", 0, 0, 0, 0, Empty, FALSE)
NoTriResponse == [commandId |-> 0, result |-> ""]
NoWait == [command |-> NoVideoCommand, commandId |-> 0]

QueuedText(command) ==
  IF command.type = "PLAY_VIDEO" THEN "Video playback started" ELSE "Image command queued"
FailedText(command) ==
  IF command.type = "PLAY_VIDEO" THEN "Failed to queue video command"
  ELSE "Failed to queue image command"

\* xQueueSend(ledCommandQueue, &ledCmd, 0) and the response
SendLedCommand(d) ==
  LET ledCmd == LedCommand("SET_COLOR", d.r, d.g, d.b, 0, 0, 0, 0)
  IN \E q \in { xQueueSend(ledQ, ledCmd, LED_QUEUE_LENGTH) } :
       /\ ledQ' = q
       /\ ledSent' = IF q # ledQ THEN Append(ledSent, ledCmd) ELSE ledSent
       /\ triOut' = sendResponse(d.commandId, "LED color set")
       /\ UNCHANGED << videoQ, vidSent, netWait >>

\* xQueueSend(videoCommandQueue, &vidCmd, pdMS_TO_TICKS(1000)): the task
\* goes on at once when the queue has room and waits when it is full
SendVideoCommand(d, type) ==
  LET vidCmd == VideoCommand(type, CopyFilename(d.filename),
                             IF type = "PLAY_VIDEO" THEN d.loop ELSE FALSE)
  IN IF Len(videoQ) < VIDEO_QUEUE_LENGTH
     THEN /\ videoQ' = xQueueSend(videoQ, vidCmd, VIDEO_QUEUE_LENGTH)
          /\ vidSent' = Append(vidSent, vidCmd)
          /\ triOut' = sendResponse(d.commandId, QueuedText(vidCmd))
          /\ UNCHANGED << ledQ, ledSent, netWait >>
     ELSE /\ netWait' = [command |-> vidCmd, commandId |-> d.commandId]
          /\ triOut' = NoTriResponse
          /\ UNCHANGED << ledQ, ledSent, videoQ, vidSent >>

processNetworkCommand_tricorder(d) ==
  IF ~d.json
  THEN /\ triOut' = NoTriResponse
       /\ UNCHANGED << ledQ, ledSent, videoQ, vidSent, netWait >>
  ELSE CASE d.action = "set_led_color" -> SendLedCommand(d)
         [] d.action = "play_video" -> SendVideoCommand(d, "PLAY_VIDEO")
         [] d.action = "display_image" -> SendVideoCommand(d, "DISPLAY_IMAGE")
         [] d.action \in { "discovery", "set_builtin_led", "status", "get_battery",
                           "debug_adc" } ->
              /\ triOut' = sendResponse(d.commandId, d.action)
              /\ UNCHANGED << ledQ, ledSent, videoQ, vidSent, netWait >>
         [] OTHER ->
              /\ triOut' = NoTriResponse
              /\ UNCHANGED << ledQ, ledSent, videoQ, vidSent, netWait >>

\* sendStatus(): the variables of other tasks that the status datagram reports
StatusReads(d) ==
  IF d.json /\ d.action = "status" THEN { "playback", "sdCardInitialized" } ELSE {}

\* the start of networkTask, with WiFi connecting: SD.begin succeeds or not,
\* and on a card of Cards the folder /videos/anim enumerates as the card says
NetStart(Cards) ==
  /\ TasksRunning
  /\ netPc = "start"
  /\ netPc' = "loop"
  /\ sdCardInitialized' \in BOOLEAN
  /\ sdAnim' \in (IF sdCardInitialized' THEN Cards ELSE { << >> })
  /\ touched' = TouchAll(touched, "networkTask", { "udp", "wifiConnected", "sdCardInitialized" })
  /\ UNCHANGED << polyVars, otherBoardVars, ledVars, boot, netWait, nRecv, triCmd, triOut, videoQ, vidSent, vidDone,
                  videoPlaying, videoLooping, currentVideo, currentFrame, totalFrames,
                  frameFiles, isAnimatedSequence, frameAge, screen, attempted, videoBuffer >>

\* one iteration of the loop of networkTask that reads a datagram of D,
\* while fewer than max datagrams have been read
NetReceive(D, max) ==
  /\ TasksRunning
  /\ netPc = "loop"
  /\ netWait = NoWait
  /\ nRecv < max
  /\ nRecv' = nRecv + 1
  /\ \E d \in D : triCmd' = d /\ processNetworkCommand_tricorder(udp_read(d))
  /\ touched' = TouchAll(touched, "networkTask",
                         { "udp", "wifiConnected" } \cup StatusReads(udp_read(triCmd')))
  /\ UNCHANGED << polyVars, otherBoardVars, leds, fastLedBrightness, ledRun, ledApplied, boot, netPc,
                  vidDone, sdCardInitialized, sdAnim, videoPlaying, videoLooping,
                  currentVideo, currentFrame, totalFrames, frameFiles,
                  isAnimatedSequence, frameAge, screen, attempted, videoBuffer >>

otherNetVars == << polyVars, otherBoardVars, ledVars, boot, netPc, nRecv, triCmd, vidDone, sdCardInitialized, sdAnim,
                   videoPlaying, videoLooping, currentVideo, currentFrame, totalFrames,
                   frameFiles, isAnimatedSequence, frameAge, screen, attempted, videoBuffer >>

\* the blocked xQueueSend returns pdPASS: the queue got room within the wait
NetUnblock ==
  /\ TasksRunning
  /\ netWait # NoWait
  /\ Len(videoQ) < VIDEO_QUEUE_LENGTH
  /\ videoQ' = xQueueSend(videoQ, netWait.command, VIDEO_QUEUE_LENGTH)
  /\ vidSent' = Append(vidSent, netWait.command)
  /\ triOut' = sendResponse(netWait.commandId, QueuedText(netWait.command))
  /\ netWait' = NoWait
  /\ touched' = Touch(touched, "networkTask", "udp")
  /\ UNCHANGED otherNetVars

\* the blocked xQueueSend returns errQUEUE_FULL after the 1000 ms
NetTimeout ==
  /\ TasksRunning
  /\ netWait # NoWait
  /\ Len(videoQ) >= VIDEO_QUEUE_LENGTH
  /\ triOut' = sendResponse(netWait.commandId, FailedText(netWait.command))
  /\ netWait' = NoWait
  /\ touched' = Touch(touched, "networkTask", "udp")
  /\ UNCHANGED << otherNetVars, videoQ, vidSent >>

-----------------------------------------------------------------------------
(* videoTask *)
PlaybackState ==
  [videoPlaying |-> videoPlaying, videoLooping |-> videoLooping,
   currentVideo |-> currentVideo, currentFrame |-> currentFrame,
   totalFrames |-> totalFrames, frameFiles |-> frameFiles,
   isAnimatedSequence |-> isAnimatedSequence, frameAge |-> frameAge,
   screen |-> screen, attempted |-> attempted, videoBuffer |-> videoBuffer]

\* the switch of videoTask
RunVideoCommand(command, v, sd, anim) ==
  CASE command.type = "PLAY_VIDEO" -> playVideo(v, command.filename, command.loop, sd, anim)
    [] command.type = "DISPLAY_IMAGE" -> displayStaticImage(v, command.filename, sd, anim)
    [] command.type = "STOP_VIDEO" -> stopVideo(v)
    [] OTHER -> v

Aged(v, ms) == [v EXCEPT !.frameAge = Min(FRAME_DELAY_MS, @ + ms)]

\* one iteration of the loop of videoTask: xQueueReceive with its 100 tick
\* wait, the switch, updateVideoPlayback, delay(10)
VideoLoop ==
  /\ TasksRunning
  /\ \E v1 \in { IF videoQ # << >>
                 THEN RunVideoCommand(xQueueReceive(videoQ).item, PlaybackState,
                                      sdCardInitialized, sdAnim)
                 ELSE Aged(PlaybackState, QUEUE_WAIT_MS) } :
       \E v2 \in { Aged(IF v1.videoPlaying THEN updateVideoPlayback(v1, sdAnim) ELSE v1,
                        LOOP_DELAY_MS) } :
         /\ videoPlaying' = v2.videoPlaying
         /\ videoLooping' = v2.videoLooping
         /\ currentVideo' = v2.currentVideo
         /\ currentFrame' = v2.currentFrame
         /\ totalFrames' = v2.totalFrames
         /\ frameFiles' = v2.frameFiles
         /\ isAnimatedSequence' = v2.isAnimatedSequence
         /\ frameAge' = v2.frameAge
         /\ screen' = v2.screen
         /\ attempted' = v2.attempted
         /\ videoBuffer' = v2.videoBuffer
         /\ touched' = TouchAll(touched, "videoTask",
                                { "playback" }
                                  \cup (IF videoQ # << >> THEN { "sdCardInitialized" } ELSE {})
                                  \cup (IF v2.screen # screen \/ v2.attempted # attempted
                                          THEN { "display" } ELSE {}))
  /\ IF videoQ # << >>
       THEN /\ videoQ' = xQueueReceive(videoQ).rest
            /\ vidDone' = Append(vidDone, xQueueReceive(videoQ).item)
       ELSE UNCHANGED << videoQ, vidDone >>
  /\ UNCHANGED << polyVars, otherBoardVars, ledVars, netVars, vidSent, sdCardInitialized, sdAnim >>

-----------------------------------------------------------------------------
(* The datagrams that arrive.  The n-th datagram carries commandId n, and a *)
(* set_led_color carries a colour made from n, so that every colour command *)
(* differs from every other.                                                *)
LedDatagrams ==
  { TriDatagram(TRUE, "set_led_color", nRecv + 1,
                nRecv + 1, 2 * (nRecv + 1), 255 - (nRecv + 1), Empty, FALSE) }

VideoDatagrams ==
  { TriDatagram(TRUE, "play_video", nRecv + 1, 0, 0, 0, Str_anim, FALSE),
    TriDatagram(TRUE, "display_image", nRecv + 1, 0, 0, 0, Str_logo, FALSE) }

ChanDatagrams ==
  LedDatagrams \cup
  { TriDatagram(TRUE, "play_video", nRecv + 1, 0, 0, 0, Str_anim, TRUE),
    TriDatagram(TRUE, "display_image", nRecv + 1, 0, 0, 0, Str_logo, FALSE),
    TriDatagram(TRUE, "status", nRecv + 1, 0, 0, 0, Empty, FALSE),
    TriDatagram(TRUE, "stop_video", nRecv + 1, 0, 0, 0, Empty, FALSE),
    TriDatagram(FALSE, "", nRecv + 1, 0, 0, 0, Empty, FALSE) }

ReplaceDatagrams ==
  { TriDatagram(TRUE, "play_video", nRecv + 1, 0, 0, 0, Str_anim, TRUE),
    TriDatagram(TRUE, "play_video", nRecv + 1, 0, 0, 0, Str_logo, FALSE),
    TriDatagram(TRUE, "play_video", nRecv + 1, 0, 0, 0, Str_nothing, TRUE) }

PlayDatagrams ==
  { TriDatagram(TRUE, "play_video", nRecv + 1, 0, 0, 0, Str_anim, TRUE),
    TriDatagram(TRUE, "play_video", nRecv + 1, 0, 0, 0, Str_anim, FALSE),
    TriDatagram(TRUE, "play_video", nRecv + 1, 0, 0, 0, Str_logo, FALSE),
    TriDatagram(TRUE, "display_image", nRecv + 1, 0, 0, 0, Str_nothing, FALSE) }

AnimDatagrams ==
  { TriDatagram(TRUE, "play_video", nRecv + 1, 0, 0, 0, Str_anim, TRUE),
    TriDatagram(TRUE, "play_video", nRecv + 1, 0, 0, 0, Str_anim, FALSE) }

\* an animation, and a still image that is one of the files of its folder
BufferDatagrams ==
  { TriDatagram(TRUE, "play_video", nRecv + 1, 0, 0, 0, Str_anim, TRUE),
    TriDatagram(TRUE, "play_video", nRecv + 1, 0, 0, 0, Str_anim, FALSE),
    TriDatagram(TRUE, "display_image", nRecv + 1, 0, 0, 0,
                Str_anim \o Str_slash \o File_a_jpeg, FALSE),
    TriDatagram(TRUE, "display_image", nRecv + 1, 0, 0, 0,
                Str_anim \o Str_slash \o File_a_jpg, FALSE) }

\* the orders in which the folder can enumerate at most MaxDirFiles files
AnimListings ==
  { f \in UNION { [1..n -> AnimPool] : n \in 0..MaxDirFiles } :
      \A i, j \in DOMAIN f : i # j => f[i] # f[j] }

ExampleListing == << File_b_jpg, File_a_jpg, File_c_jpg >>

\* the name of file n of a large folder: five binary digits and ".jpg", so
\* that the order of the names is the order of the numbers
BinName(n) ==
  [k \in 1..5 |-> IF (n \div (2 ^ (5 - k))) % 2 = 1 THEN "1" ELSE "0"] \o Str_jpg

\* enumerations of a folder of MaxBigFiles files: in ascending order, in
\* descending order, with a file that does not open, with a text file
BigListings ==
  { [k \in 1..MaxBigFiles |-> BinName(k - 1)],
    [k \in 1..MaxBigFiles |-> BinName(MaxBigFiles - k)],
    [k \in 1..MaxBigFiles |-> IF k = 5 THEN File_b_jpeg ELSE BinName(k - 1)],
    [k \in 1..MaxBigFiles |-> IF k = 2 THEN File_n_txt ELSE BinName(MaxBigFiles - k)] }

\* the command setup() sends once the tasks exist
startupEffect == LedCommand("SCANNER_EFFECT", 0, 255, 0, 0, 0, 150, 0)

\* the tricorder before any of its tasks has run
TasksNotStarted ==
  /\ netPc = "start"
  /\ sdCardInitialized = FALSE
  /\ sdAnim = << >>
  /\ ledApplied = << >>
  /\ leds = fill_solid(NUM_LEDS, Black)
  /\ fastLedBrightness = 128
  /\ ledRun = Idle
  /\ netWait = NoWait
  /\ nRecv = 0
  /\ triCmd = NoTriDatagram
  /\ triOut = NoTriResponse
  /\ videoQ = << >>
  /\ vidSent = << >>
  /\ vidDone = << >>
  /\ videoPlaying = FALSE
  /\ videoLooping = FALSE
  /\ currentVideo = Empty
  /\ currentFrame = 0
  /\ totalFrames = 1
  /\ frameFiles = NoFrames
  /\ isAnimatedSequence = FALSE
  /\ frameAge = FRAME_DELAY_MS
  /\ screen = Screen("boot", Empty)
  /\ attempted = << >>
  /\ videoBuffer = Empty

\* the state setup() leaves
InitTri ==
  /\ boot = Booted
  /\ touched = AfterSetup
  /\ ledQ = << startupEffect >>
  /\ ledSent = << startupEffect >>
  /\ TasksNotStarted

\* the state in which setup() is about to create the queues
InitBoot ==
  /\ boot = Unbooted
  /\ touched = Untouched
  /\ ledQ = << >>
  /\ ledSent = << >>
  /\ TasksNotStarted

\* xQueueCreate three times and the test of the handles
SetupQueues ==
  /\ boot.pc = "setup"
  /\ \E led, net, vid \in BOOLEAN :
       boot' = Boot(IF QueuesFailed(led, net, vid) THEN "halted" ELSE "tasks",
                    led, net, vid)
  /\ UNCHANGED << polyVars, otherBoardVars, ledVars, netPc, netWait, nRecv, triCmd, triOut, videoVars,
                  touched >>

\* xTaskCreatePinnedToCore three times and the startup effect
SetupTasks ==
  /\ boot.pc = "tasks"
  /\ boot' = [boot EXCEPT !.pc = "running"]
  /\ ledQ' = xQueueSend(ledQ, startupEffect, LED_QUEUE_LENGTH)
  /\ ledSent' = Append(ledSent, startupEffect)
  /\ UNCHANGED << polyVars, otherBoardVars, leds, fastLedBrightness, ledRun, ledApplied,
                  netPc, netWait, nRecv, triCmd, triOut, videoVars, touched >>

\* the rest of setup(), while the tasks run: displayInitializationScreen(),
\* WiFi.begin and udp.begin
SetupRest ==
  /\ boot.pc = "running"
  /\ boot' = [boot EXCEPT !.pc = "done"]
  /\ touched' = TouchAll(touched, "setup", SetupUses)
  /\ UNCHANGED << polyVars, otherBoardVars, ledVars, netPc, netWait, nRecv, triCmd, triOut, videoVars >>

-----------------------------------------------------------------------------
(* Part III: the boot button of the tricorder (tricorder/src/main.cpp)      *)

BOOT_HOLD_TIME == 5000

LedGreen == << 0, 255, 0 >>
LedOrange == << 255, 128, 0 >>
LedYellow == << 255, 255, 0 >>
LedOff == << 0, 0, 0 >>

\* the colour setup() leaves on the built-in LED: green when the station
\* is connected, orange in access point mode
SetupColours == { LedGreen, LedOrange }

\* the globals of the boot button at the end of setup(), the station connected
InitSupervisor ==
  /\ bootPin = FALSE
  /\ supNow = 0
  /\ bootButtonPressed = FALSE
  /\ bootButtonPressStart = 0
  /\ resetInProgress = FALSE
  /\ builtinLED = LedGreen
  /\ pressedSince = -1
  /\ holdResets = 0

\* millis() - bootButtonPressStart: the start is never later than millis(),
\* and the unsigned subtraction keeps the difference when millis() wraps
HoldTime(start) == supNow - start

\* the flash of the last second before the reset
WarningFlash(holdTime) == IF (holdTime % 200) < 100 THEN LedYellow ELSE LedOff

\* performHardwareReset(): the preferences are cleared and ESP.restart()
\* starts the firmware again; setup() runs to its end while the button is
\* as it is
performHardwareReset ==
  /\ bootButtonPressed' = FALSE
  /\ bootButtonPressStart' = 0
  /\ resetInProgress' = FALSE
  /\ builtinLED' \in SetupColours
  /\ supNow' = 0
  /\ pressedSince' = -1
  /\ holdResets' = holdResets + 1

\* checkBootButtonReset(), called by every pass of loop()
checkBootButtonReset ==
  /\ holdResets < MaxHoldResets
  /\ LET buttonCurrentlyPressed == bootPin
     IN IF buttonCurrentlyPressed /\ ~bootButtonPressed
          THEN /\ bootButtonPressed' = TRUE
               /\ bootButtonPressStart' = supNow
               /\ pressedSince' = IF pressedSince = -1 THEN supNow ELSE pressedSince
               /\ UNCHANGED << resetInProgress, builtinLED, supNow, holdResets >>
        ELSE IF ~buttonCurrentlyPressed /\ bootButtonPressed
          THEN /\ bootButtonPressed' = FALSE
               /\ resetInProgress' = FALSE
               /\ builtinLED' = IF resetInProgress THEN LedOff ELSE builtinLED
               /\ pressedSince' = -1
               /\ UNCHANGED << bootButtonPressStart, supNow, holdResets >>
        ELSE IF buttonCurrentlyPressed /\ bootButtonPressed /\ ~resetInProgress
          THEN IF HoldTime(bootButtonPressStart) >= BOOT_HOLD_TIME
                 THEN performHardwareReset
               ELSE /\ builtinLED' =
                         IF HoldTime(bootButtonPressStart) >= BOOT_HOLD_TIME - 1000
                           THEN WarningFlash(HoldTime(bootButtonPressStart))
                           ELSE builtinLED
                    /\ pressedSince' = IF pressedSince = -1 THEN supNow ELSE pressedSince
                    /\ UNCHANGED << bootButtonPressed, bootButtonPressStart,
                                    resetInProgress, supNow, holdResets >>
        ELSE /\ pressedSince' = IF buttonCurrentlyPressed THEN pressedSince ELSE -1
             /\ UNCHANGED << bootButtonPressed, bootButtonPressStart, resetInProgress,
                             builtinLED, supNow, holdResets >>
  /\ UNCHANGED << bootPin, polyVars, triVars, defragVars >>

\* the button goes down
BootPress ==
  /\ ~bootPin
  /\ bootPin' = TRUE
  /\ UNCHANGED << supNow, bootButtonPressed, bootButtonPressStart, resetInProgress,
                  builtinLED, pressedSince, holdResets, polyVars, triVars, defragVars >>

\* the button comes up
BootRelease ==
  /\ bootPin
  /\ bootPin' = FALSE
  /\ holdResets' = 0
  /\ UNCHANGED << supNow, bootButtonPressed, bootButtonPressStart, resetInProgress,
                  builtinLED, pressedSince, polyVars, triVars, defragVars >>

\* delay(10) and the rest of loop(): time passes between two checks
SupTick ==
  /\ supNow < MaxSupTicks * SupTickMs
  /\ supNow' = supNow + SupTickMs
  /\ UNCHANGED << bootPin, bootButtonPressed, bootButtonPressStart, resetInProgress,
                  builtinLED, pressedSince, holdResets, polyVars, triVars, defragVars >>

-----------------------------------------------------------------------------
(* Part IV: defragmentor (defragmentor/src/main.cpp)                        *)

SERVO_ACTIVE == 180
SERVO_IDLE == 0

WebIdle == [req |-> "none", pc |-> "idle", angle |-> 0]
LoopAt(p, angle) == [pc |-> p, angle |-> angle]

\* setLEDPattern(): both pixels red when active, teal and white when idle
setLEDPattern(state) == IF state THEN "ACTIVE" ELSE "IDLE"

\* moveServoToPosition(angle): servoPosition afterwards
moveServoToPosition(position, angle) ==
  IF ~powerEnabled THEN position ELSE constrain(angle, SERVO_IDLE, SERVO_ACTIVE)

\* the angles asked for on /servo/<angle>
ServoAngles == { 0, 90, 180, 270 }

\* the requests the control endpoints answer
WebRequests ==
  { [req |-> "activate", angle |-> SERVO_ACTIVE],
    [req |-> "deactivate", angle |-> SERVO_IDLE],
    [req |-> "toggle-power", angle |-> 0] }
    \cup { [req |-> "servo", angle |-> a] : a \in ServoAngles }

\* the globals at the end of setup(): the servo test ends at 0 with the
\* power on, and setLEDPattern() has shown the idle pattern
InitDefragmentor ==
  /\ triggerPin = FALSE
  /\ currentState = FALSE
  /\ servoPosition = SERVO_IDLE
  /\ powerEnabled = TRUE
  /\ ledPattern = setLEDPattern(FALSE)
  /\ dfLoop = LoopAt("read", 0)
  /\ dfWeb = WebIdle
  /\ lastTriggerRead = FALSE

\* loop(): the trigger is read and compared with currentState; the first
\* setLEDPattern() of the branch taken; without a branch, delay(50)
DefragLoopRead ==
  /\ dfLoop.pc = "read"
  /\ LET triggerPressed == triggerPin
     IN /\ lastTriggerRead' = triggerPressed
        /\ IF triggerPressed /\ ~currentState
             THEN /\ currentState' = TRUE
                  /\ ledPattern' = setLEDPattern(TRUE)
                  /\ dfLoop' = LoopAt("move", SERVO_ACTIVE)
           ELSE IF ~triggerPressed /\ currentState
             THEN /\ currentState' = FALSE
                  /\ ledPattern' = setLEDPattern(FALSE)
                  /\ dfLoop' = LoopAt("move", SERVO_IDLE)
           ELSE UNCHANGED << currentState, ledPattern, dfLoop >>
  /\ UNCHANGED << triggerPin, servoPosition, powerEnabled, dfWeb,
                  polyVars, triVars, supVars >>

\* loop(): moveServoToPosition of the branch taken, with its delay(500)
DefragLoopMove ==
  /\ dfLoop.pc = "move"
  /\ servoPosition' = moveServoToPosition(servoPosition, dfLoop.angle)
  /\ dfLoop' = LoopAt("pattern", 0)
  /\ UNCHANGED << triggerPin, currentState, powerEnabled, ledPattern, dfWeb,
                  lastTriggerRead, polyVars, triVars, supVars >>

\* loop(): the second setLEDPattern() of the branch and delay(50)
DefragLoopPattern ==
  /\ dfLoop.pc = "pattern"
  /\ ledPattern' = setLEDPattern(currentState)
  /\ dfLoop' = LoopAt("read", 0)
  /\ UNCHANGED << triggerPin, currentState, servoPosition, powerEnabled, dfWeb,
                  lastTriggerRead, polyVars, triVars, supVars >>

\* the web server's task enters the handler of a request: /activate and
\* /deactivate assign currentState, /toggle-power switches the supply
WebStart ==
  /\ dfWeb = WebIdle
  /\ \E q \in WebRequests :
       /\ dfWeb' = [req |-> q.req,
                    pc |-> IF q.req = "toggle-power" THEN "respond" ELSE "move",
                    angle |-> constrain(q.angle, SERVO_IDLE, SERVO_ACTIVE)]
       /\ currentState' = IF q.req = "activate" THEN TRUE
                          ELSE IF q.req = "deactivate" THEN FALSE
                          ELSE currentState
       /\ powerEnabled' = IF q.req = "toggle-power" THEN ~powerEnabled ELSE powerEnabled
  /\ UNCHANGED << triggerPin, servoPosition, ledPattern, dfLoop, lastTriggerRead,
                  polyVars, triVars, supVars >>

\* the handler's moveServoToPosition, with its delay(500)
WebMove ==
  /\ dfWeb.pc = "move"
  /\ servoPosition' = moveServoToPosition(servoPosition, dfWeb.angle)
  /\ dfWeb' = [dfWeb EXCEPT !.pc = "respond"]
  /\ UNCHANGED << triggerPin, currentState, powerEnabled, ledPattern, dfLoop,
                  lastTriggerRead, polyVars, triVars, supVars >>

\* the handler's setLEDPattern() and request->send
WebRespond ==
  /\ dfWeb.pc = "respond"
  /\ ledPattern' = IF dfWeb.req \in { "activate", "deactivate" }
                     THEN setLEDPattern(currentState) ELSE ledPattern
  /\ dfWeb' = WebIdle
  /\ UNCHANGED << triggerPin, currentState, servoPosition, powerEnabled, dfLoop,
                  lastTriggerRead, polyVars, triVars, supVars >>

\* the trigger is pressed or let go
TriggerChange ==
  /\ triggerPin' = ~triggerPin
  /\ UNCHANGED << currentState, servoPosition, powerEnabled, ledPattern, dfLoop, dfWeb,
                  lastTriggerRead, polyVars, triVars, supVars >>

-----------------------------------------------------------------------------
(* Specifications *)

\* both boards after setup()
Init == InitPoly /\ InitTri /\ InitSupervisor /\ InitDefragmentor

\* the sACN receiver under every kind of packet, with two UDP commands
SacnStep == LoopSacn(SacnPackets)
UdpStepFew == LoopUdp(UdpDatagramsFew)
NextSacn == SacnStep \/ UdpStepFew \/ LoopWifi \/ Tick \/ WifiChange
SpecSacn == Init /\ [][NextSacn]_vars

\* the UDP command processor under every command, with two sACN packets
SacnStepFew == LoopSacn(SacnPacketsFew)
UdpStep == LoopUdp(UdpDatagrams)
NextUdp == SacnStepFew \/ UdpStep \/ LoopWifi \/ Tick \/ WifiChange
SpecUdp == Init /\ [][NextUdp]_vars

\* the payload length test under start addresses up to 512
InitPayload ==
  SetupPoly(PayloadStartAddresses) /\ InitTri /\ InitSupervisor /\ InitDefragmentor
SacnStepPayload == LoopSacn(PayloadPackets)
NextPayload == SacnStepPayload \/ UdpStepFew \/ LoopWifi \/ Tick \/ WifiChange
SpecPayload == InitPayload /\ [][NextPayload]_vars

\* loop() going round for ever while time passes: priority between sACN and
\* UDP, with reception toggled and the access point coming and going
NextPrio == SacnStepFew \/ UdpStepFew \/ LoopWifi \/ Tick \/ WifiChange
FairSpecPrio ==
  /\ Init
  /\ [][NextPrio]_vars
  /\ WF_vars(SacnStepFew) /\ WF_vars(UdpStepFew) /\ WF_vars(LoopWifi)
  /\ WF_vars(Tick)

\* both boards after setup(), the receiver on DMX start address 1
InitOne == Init /\ sacnStartAddress = 1

\* networkTask starts on the card of the example, or on any card
StartExample == NetStart({ ExampleListing })
StartAny == NetStart(AnimListings)

\* the LED channel: networkTask sends colours, ledTask applies them
NetLed == NetReceive(LedDatagrams, MaxLedDatagrams)
NextLed == StartExample \/ NetLed \/ LedReceive \/ LedEffectStep
SpecLed == InitOne /\ [][NextLed]_vars

\* the video channel until it is full
NetVideo == NetReceive(VideoDatagrams, MaxVideoDatagrams)
NextVideo == StartExample \/ NetVideo \/ NetUnblock \/ NetTimeout \/ VideoLoop
SpecVideo == InitOne /\ [][NextVideo]_vars

\* both channels and the three tasks
NetChan == NetReceive(ChanDatagrams, MaxChanDatagrams)
NextChan == StartExample \/ NetChan \/ LedReceive \/ LedEffectStep \/ VideoLoop
SpecChan == InitOne /\ [][NextChan]_vars

\* playback on any card
NetPlay == NetReceive(PlayDatagrams, MaxPlayDatagrams)
NextPlay == StartAny \/ NetPlay \/ VideoLoop
SpecPlay == InitOne /\ [][NextPlay]_vars

\* one play_video after another on any card, for sources that are on the
\* card and for one that is not
NetReplace == NetReceive(ReplaceDatagrams, MaxReplaceDatagrams)
NextReplace == StartAny \/ NetReplace \/ VideoLoop
SpecReplace == InitOne /\ [][NextReplace]_vars

\* an animation request on any card, with videoTask never starved: its loop
\* keeps running
NetAnim == NetReceive(AnimDatagrams, MaxAnimDatagrams)
NextAnim == StartAny \/ NetAnim \/ VideoLoop
FairSpecAnim == InitOne /\ [][NextAnim]_vars /\ WF_vars(VideoLoop)

\* animations and still images on any card, some files larger than the
\* decode buffer
NetBuffer == NetReceive(BufferDatagrams, MaxBufferDatagrams)
NextBuffer == StartAny \/ NetBuffer \/ VideoLoop
SpecBuffer == InitOne /\ [][NextBuffer]_vars

\* animations from a folder with more files than the frame table holds
StartBig == NetStart(BigListings)
NextBig == StartBig \/ NetAnim \/ VideoLoop
SpecBig == InitOne /\ [][NextBig]_vars

\* both command processors under datagrams they have no branch for, next to
\* one command of each kind that they do handle
IgnoredDatagrams ==
  { Datagram("warp_drive", {"r", "g", "b"}, 255, 0, 0, 0, 0, << >>),
    Datagram("", {"r"}, 255, 0, 0, 0, 0, << >>),
    [NoDatagram EXCEPT !.action = "set_led_color", !.len = 20],
    Datagram("set_led_color", {"r", "g", "b"}, 0, 0, 255, 0, 0, << >>) }
IgnoredTriDatagrams ==
  { TriDatagram(TRUE, "stop_video", nRecv + 1, 255, 0, 0, Str_logo, FALSE),
    TriDatagram(TRUE, "", nRecv + 1, 255, 0, 0, Str_logo, FALSE),
    TriDatagram(FALSE, "set_led_color", nRecv + 1, 255, 0, 0, Empty, FALSE),
    TriDatagram(TRUE, "set_led_color", nRecv + 1, 0, 0, 255, Empty, FALSE),
    TriDatagram(TRUE, "display_image", nRecv + 1, 0, 0, 0, Str_logo, FALSE) }
SacnStepOne == LoopSacn({ Pkt(FullLen, 0, 1, 1, 1) })
UdpStepIgnored == LoopUdp(IgnoredDatagrams)
NetIgnored == NetReceive(IgnoredTriDatagrams, MaxIgnoredDatagrams)
NextIgnored ==
  SacnStepOne \/ UdpStepIgnored \/ LoopWifi \/ StartExample \/ NetIgnored
    \/ LedReceive \/ LedEffectStep \/ VideoLoop
SpecIgnored == InitOne /\ [][NextIgnored]_vars

\* the tricorder from the start of setup(): the queues may fail to be created
NetBoot == NetReceive(ChanDatagrams, MaxBootDatagrams)
NextBoot ==
  SetupQueues \/ SetupTasks \/ SetupRest \/ StartExample \/ NetBoot \/ LedReceive \/ LedEffectStep
    \/ VideoLoop
InitBootOne ==
  InitPoly /\ sacnStartAddress = 1 /\ InitBoot /\ InitSupervisor /\ InitDefragmentor
SpecBoot == InitBootOne /\ [][NextBoot]_vars

\* the boot button: it goes down and up while loop() checks it and time passes
NextSupervisor == checkBootButtonReset \/ BootPress \/ BootRelease \/ SupTick
SpecSupervisor == InitOne /\ [][NextSupervisor]_vars

\* the defragmentor: loop() and the web server's task side by side
NextDefragmentor ==
  DefragLoopRead \/ DefragLoopMove \/ DefragLoopPattern \/ WebStart \/ WebMove
    \/ WebRespond \/ TriggerChange
SpecDefragmentor == InitOne /\ [][NextDefragmentor]_vars

-----------------------------------------------------------------------------
(* Claims, Part I *)

LedsUnchanged == leds1' = leds1 /\ leds2' = leds2 /\ leds3' = leds3

\* the colour the payload of packet p holds for fixture i at start address a
PayloadColour(p, a, i) ==
  << PayloadByte(p.pat, a - 1 + 3 * i),
     PayloadByte(p.pat, a - 1 + 3 * i + 1),
     PayloadByte(p.pat, a - 1 + 3 * i + 2) >>

\* C1: once handleSACNPackets has finished with an accepted packet, every
\* fixture i, in strip order, shows the payload bytes at start-1+3i .. +2 of
\* that packet, the first accepted packet included.
C1_AcceptedFrameOnLeds ==
  (pc = "udp" /\ rxAccepted) =>
     \A i \in 0..(TOTAL_LEDS - 1) :
        Pixel(leds1, leds2, leds3, i) = PayloadColour(rx, sacnStartAddress, i)

\* C2: while sacnActive and sacnPriority are both set, a UDP colour command
\* changes no pixel and is still answered.
C2_ColourCommandsSuppressed ==
  [][(pc = "udp" /\ pc' = "wifi" /\ sacnActive /\ sacnPriority
        /\ cmd'.json /\ cmd'.len <= INCOMING_PACKET_SIZE
        /\ cmd'.action \in ColourActions)
      => (LedsUnchanged /\ udpOut'.commandId = cmd'.commandId
            /\ udpOut' # NoResponse)]_vars

\* C3: a set_led_color command handled when more than 30 s have passed since
\* the last accepted sACN frame sets every pixel to its colour.
C3_UdpTakesEffectAfterTimeout ==
  [][(pc = "udp" /\ pc' = "wifi" /\ now - lastSacnPacket > SACN_TIMEOUT_MS
        /\ cmd'.json /\ cmd'.action = "set_led_color")
      => \A i \in 0..(TOTAL_LEDS - 1) :
            Pixel(leds1', leds2', leds3', i)
              = CRGB(JInt(cmd', "r", cmd'.r), JInt(cmd', "g", cmd'.g),
                     JInt(cmd', "b", cmd'.b))]_vars

\* C4: a packet whose protocol identifier differs in one byte changes no pixel,
\* not the recorded sequence number, the stored DMX data or the time of the
\* last packet; sacnActive and sacnPriority change only when the 30 s timeout
\* of the same handler call clears them.
C4_BadIdentifierNoEffect ==
  [][(pc = "sacn" /\ pc' = "udp" /\ rx'.badAt # 0)
      => /\ LedsUnchanged
         /\ sacnSequence' = sacnSequence
         /\ lastSacnData' = lastSacnData
         /\ lastSacnPacket' = lastSacnPacket
         /\ ~rxAccepted'
         /\ \/ (sacnActive' = sacnActive /\ sacnPriority' = sacnPriority)
            \/ (SacnTimedOut(sacnActive, lastSacnPacket)
                  /\ ~sacnActive' /\ ~sacnPriority')]_vars

\* a packet with a wrong identifier byte was handled while DMX had priority
\* and the strips showed DMX colours
C4_Witness ==
  /\ pc = "udp"
  /\ rx.badAt # 0
  /\ rx.len >= E131_DATA_OFFSET
  /\ sacnActive
  /\ sacnPriority
  /\ leds1[0] # Black

-----------------------------------------------------------------------------
(* Claims, Part II *)

\* C5: no channel send ever blocks networkTask: the task is never left
\* waiting inside xQueueSend
C5_NetworkTaskNeverBlocks == netWait = NoWait

\* C6: the LED channel never holds more than 10 commands; a set_led_color
\* that arrives while it holds 10 leaves the queue and the record of
\* successful sends as they were and is still answered; one that arrives
\* while there is room goes to the back; what ledTask applies was sent
C6_LedChannelBounded ==
  [][/\ Len(ledQ') <= LED_QUEUE_LENGTH
     /\ (nRecv' # nRecv /\ Len(ledQ) = LED_QUEUE_LENGTH)
          => (ledQ' = ledQ /\ ledSent' = ledSent /\ triOut'.commandId = nRecv')
     /\ (nRecv' # nRecv /\ Len(ledQ) < LED_QUEUE_LENGTH)
          => (Len(ledQ') = Len(ledQ) + 1 /\ SubSeq(ledQ', 1, Len(ledQ)) = ledQ
              /\ ledQ'[Len(ledQ')].r = nRecv')
     /\ Len(ledApplied') <= Len(ledSent')
     /\ \A k \in 1..Len(ledApplied') : ledApplied'[k] \in Range(ledSent')]_vars

\* eleven colours were sent while ledTask was inside the startup effect: the
\* queue holds the first ten
C6_Witness ==
  /\ nRecv >= LED_QUEUE_LENGTH + 1
  /\ ledApplied = << startupEffect >>
  /\ Len(ledQ) = LED_QUEUE_LENGTH
  /\ \A k \in 1..LED_QUEUE_LENGTH : ledQ[k].r = k

\* C7: each channel is first in, first out: what a task has taken from its
\* queue, followed by what the queue holds, is what was sent successfully,
\* in the order of the sends
C7_ChannelsAreFifo ==
  /\ ledApplied \o ledQ = ledSent
  /\ vidDone \o videoQ = vidSent

C7_Witness ==
  /\ Len(ledApplied) >= 3
  /\ ledApplied[2] # ledApplied[3]
  /\ Len(vidDone) >= 2
  /\ vidDone[1] # vidDone[2]

JpegNames(listing) == { listing[k] : k \in { m \in DOMAIN listing : IsJpegName(listing[m]) } }

IsBadFrame(path) == FileStatus(BaseName(path)) # "ok"

\* C8: a non-looping animation of two or more frames, some of which cannot
\* be opened, decoded or buffered, leads to videoPlaying false, unless a
\* later command takes its place
C8_NonLoopingAnimationStops ==
  \A n \in 0..MaxAnimDatagrams :
    (/\ Len(vidDone) = n
     /\ videoPlaying /\ isAnimatedSequence /\ ~videoLooping
     /\ totalFrames >= 2
     /\ \E k \in 0..(totalFrames - 1) : IsBadFrame(frameFiles[k]))
      ~> (~videoPlaying \/ Len(vidDone) # n)

\* a non-looping animation with a bad frame has run and has stopped
C8_Witness ==
  /\ vidDone = << VideoCommand("PLAY_VIDEO", Str_anim, FALSE) >>
  /\ Cardinality(JpegNames(sdAnim)) >= 2
  /\ \E k \in DOMAIN attempted : attempted[k].anim /\ IsBadFrame(attempted[k].path)
  /\ ~videoPlaying
  /\ screen = Screen("stopped", Empty)

\* C9: a frame that fails is the only one skipped: after the attempt at
\* frame k the next attempt of the animation is at frame k + 1, or at frame 0
\* when k was the last frame
C9_OnlyFailedFrameSkipped ==
  \A k \in 1..(Len(attempted) - 1) :
    attempted[k].anim =>
      \/ attempted[k + 1].frame = attempted[k].frame + 1
      \/ /\ attempted[k + 1].frame = 0
         /\ attempted[k].frame = Cardinality(JpegNames(sdAnim)) - 1

\* the file name with exactly n smaller names in S
NthSmallest(S, n) ==
  CHOOSE x \in S : Cardinality({ y \in S : StrGreater(x, y) }) = n

\* C10: the frame attempted at cursor n of an animation is the JPEG file of
\* the folder with exactly n smaller names, whatever the order of enumeration,
\* and the frame table of a running animation ascends
C10_FramesInLexicographicOrder ==
  /\ \A k \in DOMAIN attempted :
       attempted[k].anim =>
         attempted[k].path =
           AnimFolder \o Str_slash \o NthSmallest(JpegNames(sdAnim), attempted[k].frame)
  /\ (videoPlaying /\ isAnimatedSequence) =>
       \A i, j \in 0..(totalFrames - 1) :
         i < j => StrGreater(frameFiles[j], frameFiles[i])

\* the folder enumerates b.jpg, a.jpg, c.jpg and the animation has attempted
\* a.jpg, b.jpg, c.jpg
C10_Witness ==
  /\ sdAnim = ExampleListing
  /\ Len(attempted) = 3
  /\ \A k \in 1..3 : attempted[k].anim /\ attempted[k].frame = k - 1
  /\ attempted[1].path = AnimFolder \o Str_slash \o File_a_jpg
  /\ attempted[2].path = AnimFolder \o Str_slash \o File_b_jpg
  /\ attempted[3].path = AnimFolder \o Str_slash \o File_c_jpg

\* the pixels of l that are not black
Lit(l) == { i \in DOMAIN l : l[i] # Black }

\* C11: one SCANNER_EFFECT lights exactly one pixel at a time, at 0, 1, ...,
\* NUM_LEDS-1 and then NUM_LEDS-2, ..., 1, in the command's colour; each step
\* is followed by the next one, and ledTask takes no command from its queue
\* before the last step is over
C11_ScannerVisitsEveryIndex ==
  [][/\ ledRun'.kind = "scanner" =>
          /\ ledRun'.step \in 1..(2 * NUM_LEDS - 2)
          /\ Lit(leds') =
               { IF ledRun'.step <= NUM_LEDS THEN ledRun'.step - 1
                 ELSE (NUM_LEDS - 2) - (ledRun'.step - NUM_LEDS - 1) }
          /\ \A i \in Lit(leds') :
               leds'[i] = CRGB(ledRun'.command.r, ledRun'.command.g, ledRun'.command.b)
          /\ (ledRun.kind # "scanner") => ledRun'.step = 1
     /\ ledRun.kind = "scanner" =>
          /\ ledApplied' = ledApplied
          /\ Len(ledQ') >= Len(ledQ)
          /\ ledRun' # ledRun =>
               \/ ledRun' = [ledRun EXCEPT !.step = @ + 1]
               \/ ledRun.step = 2 * NUM_LEDS - 2 /\ ledRun' = Idle]_vars

\* the scanner is at its last step, the pixel next to the first one lit for
\* the second time, with a colour command waiting in the queue
C11_Witness ==
  /\ ledRun.kind = "scanner"
  /\ ledRun.step = 2 * NUM_LEDS - 2
  /\ leds = [fill_solid(NUM_LEDS, Black) EXCEPT ![1] = << 0, 255, 0 >>]
  /\ ledQ # << >>

\* C12: with the card mounted and logo.jpg in /videos the only file that
\* matches, a display_image of "logo" resolves to /videos/logo.jpg and
\* renders it: once videoTask has run the command the screen shows that file
C12_LogoResolvesAndRenders ==
  (/\ sdCardInitialized
   /\ vidDone # << >>
   /\ vidDone[Len(vidDone)] = VideoCommand("DISPLAY_IMAGE", Str_logo, FALSE))
    => (/\ screen = Screen("image", Str_videos \o Str_slash \o File_logo_jpg)
        /\ ~videoPlaying)

\* the image was requested while an animation was playing, and is on screen
C12_Witness ==
  /\ Len(vidDone) >= 2
  /\ vidDone[Len(vidDone) - 1].type = "PLAY_VIDEO"
  /\ vidDone[Len(vidDone)] = VideoCommand("DISPLAY_IMAGE", Str_logo, FALSE)
  /\ \E k \in DOMAIN attempted : attempted[k].anim
  /\ screen = Screen("image", Str_videos \o Str_slash \o File_logo_jpg)

\* the actions processNetworkCommand of the polyinoculator has a branch for
RecognizedActions ==
  ColourActions \cup { "discovery", "set_brightness", "toggle_sacn", "status" }

\* C13: a datagram that is a JSON document with a recognized action is
\* answered by one response datagram carrying its commandId
C13_RecognizedActionAnswered ==
  [][(pc = "udp" /\ pc' = "wifi" /\ cmd'.json /\ cmd'.action \in RecognizedActions)
      => (udpOut' # NoResponse /\ udpOut'.commandId = cmd'.commandId)]_vars

\* the numeric fields a command cannot do without
RequiredFields(action) ==
  CASE action = "set_led_color" -> { "r", "g", "b" }
    [] action = "set_individual_led" -> { "ledIndex", "r", "g", "b" }
    [] action = "set_brightness" -> { "brightness" }
    [] OTHER -> {}

\* a required field of d is missing or outside its range
InvalidFields(d) ==
  \E k \in RequiredFields(d.action) :
     \/ k \notin d.has
     \/ k = "ledIndex" /\ d[k] \notin 0..(TOTAL_LEDS - 1)
     \/ k # "ledIndex" /\ d[k] \notin 0..255

\* C14: a recognized command with a required numeric field missing or out of
\* range changes no pixel and no brightness, and its response is not the
\* response of the successful command
C14_InvalidFieldsRejected ==
  [][(pc = "udp" /\ pc' = "wifi" /\ cmd'.json /\ cmd'.len <= INCOMING_PACKET_SIZE
        /\ InvalidFields(cmd'))
      => /\ LedsUnchanged
         /\ ledBrightness' = ledBrightness
         /\ udpOut'.commandId = cmd'.commandId
         /\ udpOut'.result \notin { "LED color set", "Individual LED set",
                                    "Brightness set" }]_vars

\* the source of a request names no file and no folder with a JPEG in it
Unresolvable(command) ==
  IF command.type = "DISPLAY_IMAGE"
  THEN FirstExisting(ImageCandidates(command.filename), sdAnim) = Empty
  ELSE IF IsDirectory(Str_videos \o Str_slash \o command.filename, sdAnim)
  THEN JpegNames(sdAnim) = {}
  ELSE \A k \in DOMAIN VideosListing : IndexOf(VideosListing[k], command.filename) # 0

\* C15: when videoTask runs a play_video or display_image whose source cannot
\* be resolved, a failure response with the commandId of that command goes
\* out, and nothing is playing afterwards.  (Every datagram of this
\* specification is queued, so the k-th command run has commandId k.)
C15_ResolutionFailureReported ==
  [][(/\ sdCardInitialized
      /\ Len(vidDone') = Len(vidDone) + 1
      /\ Unresolvable(vidDone'[Len(vidDone')]))
      => /\ ~videoPlaying'
         /\ triOut'.commandId = Len(vidDone')
         /\ triOut'.result \notin { "", "Video playback started", "Image command queued" }]_vars

\* the actions processNetworkCommand of the tricorder has a branch for
TriRecognizedActions ==
  { "discovery", "set_led_color", "set_builtin_led", "play_video", "display_image",
    "status", "get_battery", "debug_adc" }

\* C16: a datagram that is not JSON, or whose action is absent or not one the
\* handler knows, sends nothing to a channel, is not answered, and changes
\* no pixel, brightness, playback or sACN priority state, on either board
C16_UnknownInputIgnored ==
  [][/\ (pc = "udp" /\ pc' = "wifi" /\ cmd' # NoDatagram
           /\ (~cmd'.json \/ cmd'.action \notin RecognizedActions))
        => /\ LedsUnchanged
           /\ udpOut' = NoResponse
           /\ UNCHANGED << currentColor, ledBrightness, sacnEnabled, sacnActive,
                           sacnPriority, lastSacnPacket, lastSacnData, sacnSequence >>
     /\ (nRecv' # nRecv /\ (~triCmd'.json \/ triCmd'.action \notin TriRecognizedActions))
        => /\ triOut' = NoTriResponse
           /\ netWait' = NoWait
           /\ UNCHANGED << ledVars, videoVars >>]_vars

\* the polyinoculator under sACN priority has just ignored the unknown action
\* warp_drive, and the tricorder, its image on screen and a colour waiting in
\* the LED queue, has just ignored stop_video
C16_Witness ==
  /\ pc = "wifi" /\ cmd.action = "warp_drive" /\ udpOut = NoResponse
  /\ sacnActive /\ sacnPriority
  /\ triCmd.action = "stop_video" /\ triOut = NoTriResponse
  /\ nRecv = MaxIgnoredDatagrams
  /\ screen = Screen("image", Str_videos \o Str_slash \o File_logo_jpg)

\* C17: when one of the three queues could not be created, setup() stays in
\* its halt loop: the tasks are never created, so no datagram is read, no
\* command is taken from a queue and no response is sent
C17_HaltsWhenQueueCreationFails ==
  (boot.pc # "setup" /\ (~boot.led \/ ~boot.net \/ ~boot.vid))
    => /\ boot.pc = "halted"
       /\ ~TasksRunning
       /\ netPc = "start" /\ nRecv = 0 /\ triOut = NoTriResponse
       /\ ledQ = << >> /\ ledApplied = << >> /\ ledRun = Idle
       /\ videoQ = << >> /\ vidDone = << >>

\* only the creation of the video queue failed, and setup() has halted
C17_Witness == boot = Boot("halted", TRUE, TRUE, FALSE)

\* C18: after the three tasks were created, the LED strip is used by ledTask
\* only, the display by videoTask only and the UDP socket by networkTask only
C18_OneAccessorPerResource ==
  /\ touched.strip \subseteq { "ledTask" }
  /\ touched.display \subseteq { "videoTask" }
  /\ touched.udp \subseteq { "networkTask" }

\* C19: no variable is used by more than one task: the playback state, the
\* flag wifiConnected and the flag sdCardInitialized each have one accessor
C19_NoVariableSharedBetweenTasks ==
  /\ Cardinality(touched.playback) <= 1
  /\ Cardinality(touched.wifiConnected) <= 1
  /\ Cardinality(touched.sdCardInitialized) <= 1

\* C20: while ledTask is inside an effect it takes nothing from its queue;
\* a command sent meanwhile goes to the back of the queue, or nowhere when
\* the queue is full; the pixels change only by the steps of the effect,
\* which follow one another up to the last; and what is applied afterwards
\* is what was sent, in the order of the sends
C20_EffectsRunToCompletion ==
  [][/\ ledRun # Idle =>
          /\ ledApplied' = ledApplied
          /\ \/ ledQ' = ledQ
             \/ /\ Len(ledQ) < LED_QUEUE_LENGTH
                /\ ledQ' = Append(ledQ, ledSent'[Len(ledSent')])
                /\ ledSent' = Append(ledSent, ledSent'[Len(ledSent')])
          /\ leds' # leds => ledRun' # ledRun
          /\ ledRun' # ledRun =>
               \/ /\ ledRun'.command = ledRun.command
                  /\ ledRun'.kind = ledRun.kind
                  /\ ledRun'.step = ledRun.step + 1
               \/ /\ ledRun' = Idle
                  /\ ledRun.kind = "scanner" => ledRun.step = 2 * NUM_LEDS - 2
                  /\ ledRun.kind = "pulse" =>
                       ledRun.step * PULSE_DELAY_MS >= ledRun.command.duration
     /\ ledApplied' \o ledQ' = ledSent']_vars

\* two colours were sent during the startup effect and ledTask has applied
\* them after it, the first one first
C20_Witness ==
  /\ ledRun = Idle
  /\ Len(ledApplied) = 3
  /\ ledApplied[1] = startupEffect
  /\ ledApplied[2].r = 1 /\ ledApplied[3].r = 2
  /\ leds = fill_solid(NUM_LEDS, CRGB(2, 4, 253))

\* the packet handleSACNPackets has just read passes the first three tests of
\* processSACNPacket: length, identifier and universe
PassesHeaderChecks(p) ==
  /\ p # NoPacket
  /\ Min(p.len, E131_PACKET_SIZE) >= E131_DATA_OFFSET
  /\ IdentifierMatches(PacketBytes(p))
  /\ UniverseOf(PacketBytes(p)) = sacnUniverse

\* the DMX payload of packet p as the handler sees it
DmxLength(p) == Min(p.len, E131_PACKET_SIZE) - E131_DATA_OFFSET

\* C21: a packet that passes the length, identifier and universe tests is
\* accepted exactly when its payload holds at least
\* sacnStartAddress - 1 + 3 * TOTAL_LEDS bytes
C21_AcceptedFromExactPayload ==
  (pc = "udp" /\ PassesHeaderChecks(rx)) =>
    (rxAccepted <=> DmxLength(rx) >= sacnStartAddress - 1 + 3 * TOTAL_LEDS)

\* C22: a packet shorter than the 126 bytes of the header, or whose universe
\* field is not the configured universe, changes no pixel, not the recorded
\* sequence number, the stored DMX data or the time of the last packet;
\* sacnActive and sacnPriority change only when the 30 s timeout of the same
\* handler call clears them.
C22_ShortOrForeignPacketNoEffect ==
  [][(/\ pc = "sacn" /\ pc' = "udp"
      /\ rx' # NoPacket
      /\ rx'.len < E131_DATA_OFFSET \/ rx'.universe # sacnUniverse)
      => /\ LedsUnchanged
         /\ sacnSequence' = sacnSequence
         /\ lastSacnData' = lastSacnData
         /\ lastSacnPacket' = lastSacnPacket
         /\ ~rxAccepted'
         /\ \/ (sacnActive' = sacnActive /\ sacnPriority' = sacnPriority)
            \/ (SacnTimedOut(sacnActive, lastSacnPacket)
                  /\ ~sacnActive' /\ ~sacnPriority')]_vars

\* a full packet with a good identifier for universe 257, whose low byte is
\* that of universe 1, was handled while DMX had priority and the strips
\* showed DMX colours
C22_Witness ==
  /\ pc = "udp"
  /\ rx.badAt = 0
  /\ rx.len = FullLen
  /\ rx.universe = 257
  /\ sacnUniverse = 1
  /\ sacnActive
  /\ sacnPriority
  /\ leds1[0] # Black
  /\ sacnSequence # rx.seq

\* C23: a packet that passes the length, identifier and universe tests and
\* fails the payload length test changes no pixel, not the recorded sequence
\* number and not the stored DMX data; sacnActive and sacnPriority change
\* only when the 30 s timeout of the same handler call clears them.
C23_ShortPayloadNoEffect ==
  [][(/\ pc = "sacn" /\ pc' = "udp"
      /\ PassesHeaderChecks(rx')
      /\ ~PayloadCovers(DmxLength(rx'), sacnStartAddress))
      => /\ LedsUnchanged
         /\ sacnSequence' = sacnSequence
         /\ lastSacnData' = lastSacnData
         /\ \/ (sacnActive' = sacnActive /\ sacnPriority' = sacnPriority)
            \/ (SacnTimedOut(sacnActive, lastSacnPacket)
                  /\ ~sacnActive' /\ ~sacnPriority')]_vars

\* C24: every accepted packet sets sacnActive and sets lastSacnPacket to the
\* current time, lastSacnPacket changes at no other moment, and sacnActive
\* is cleared only when more than 30 s have passed since lastSacnPacket
C24_ActiveWhileFramesAreRecent ==
  [][/\ (pc = "sacn" /\ pc' = "udp" /\ rxAccepted')
          => (sacnActive' /\ lastSacnPacket' = now)
     /\ lastSacnPacket' # lastSacnPacket => rxAccepted'
     /\ (sacnActive /\ ~sacnActive')
          => now' - lastSacnPacket' > SACN_TIMEOUT_MS]_vars

\* the handler has run, with a packet it rejected, at most 30 s after the
\* last accepted packet, and the flag is still set
C24_Witness ==
  /\ pc = "udp"
  /\ sacnActive
  /\ lastSacnPacket > 0
  /\ now - lastSacnPacket \in 1..SACN_TIMEOUT_MS
  /\ rx # NoPacket
  /\ ~rxAccepted

\* C25: when sacnActive is set and more than 30 s have passed since the last
\* accepted packet, sacnActive is eventually cleared (or a new packet is
\* accepted), also after toggle_sacn has switched reception off or WiFi has
\* gone: UDP colour commands are not suppressed for ever
C25_PriorityEventuallyReleased ==
  (sacnActive /\ now - lastSacnPacket > SACN_TIMEOUT_MS)
    ~> (~sacnActive \/ now - lastSacnPacket <= SACN_TIMEOUT_MS)

\* videoTask is about to show frame n of a running animation: its queue is
\* empty, so the iteration goes straight to updateVideoPlayback, and the 100
\* ticks it waited on the queue have made the frame due
AboutToShow(n) ==
  /\ videoQ = << >>
  /\ videoPlaying /\ isAnimatedSequence
  /\ totalFrames > 0
  /\ currentFrame = n

\* C26: when the last frame of an animation has been rendered, a looping
\* animation goes on with the cursor at 0 and renders frame 0 next; one that
\* does not loop stops, and while playback is stopped and no command arrives
\* no frame is loaded
C26_EndOfSequenceLoopsOrStops ==
  [][VideoLoop =>
       /\ (AboutToShow(totalFrames - 1) /\ ~IsBadFrame(frameFiles[currentFrame]))
            => IF videoLooping
                 THEN /\ videoPlaying' /\ currentFrame' = 0
                      /\ totalFrames' = totalFrames /\ frameFiles' = frameFiles
                 ELSE ~videoPlaying'
       /\ (AboutToShow(0) /\ ~IsBadFrame(frameFiles[0]))
            => attempted'[Len(attempted')] = Attempt(0, frameFiles[0], TRUE)
       /\ (~videoPlaying /\ videoQ = << >>)
            => (attempted' = attempted /\ screen' = screen /\ ~videoPlaying')]_vars

\* a looping animation of three good frames has rendered its last frame and
\* then frame 0 again
C26_Witness ==
  /\ videoPlaying /\ videoLooping /\ isAnimatedSequence
  /\ totalFrames = 3
  /\ Len(attempted) = 4
  /\ attempted[3].frame = 2 /\ ~IsBadFrame(attempted[3].path)
  /\ attempted[4] = Attempt(0, frameFiles[0], TRUE)
  /\ screen = Screen("image", frameFiles[0])

\* C27: when the last frame of a looping animation cannot be opened, the
\* iteration of videoTask that tried it leaves the animation playing with
\* the cursor at 0, so that frame 0 is the frame attempted next
C27_FailedLastFrameWrapsToZero ==
  [][(/\ VideoLoop
      /\ AboutToShow(totalFrames - 1)
      /\ videoLooping
      /\ ~SdOpens(frameFiles[currentFrame], sdAnim))
      => (videoPlaying' /\ currentFrame' = 0)]_vars

\* a file larger than the decode buffer
TooLarge(path) == FileStatus(BaseName(path)) = "toolarge"

\* C28: the decode buffer never holds a file larger than itself and the
\* screen never shows one; an iteration of videoTask that finds the frame
\* of a running animation too large reads and draws nothing, and moves the
\* cursor on by one, with the usual wrap or stop after the last frame
C28_OversizedFileNeverLoaded ==
  [][/\ ~TooLarge(videoBuffer')
     /\ screen'.kind = "image" => ~TooLarge(screen'.path)
     /\ (/\ AboutToShow(currentFrame)
         /\ currentFrame < totalFrames
         /\ TooLarge(frameFiles[currentFrame])
         /\ VideoLoop)
          => /\ videoBuffer' = videoBuffer
             /\ IF currentFrame + 1 < totalFrames
                  THEN /\ currentFrame' = currentFrame + 1
                       /\ videoPlaying' /\ screen' = screen
                  ELSE IF videoLooping
                  THEN /\ currentFrame' = 0
                       /\ videoPlaying' /\ screen' = screen
                  ELSE ~videoPlaying']_vars

\* a still image was shown, then an animation was started whose first frame
\* is too large: the frame was skipped, the cursor stands at the second
\* frame, and buffer and screen still hold the still image
C28_Witness ==
  /\ videoPlaying /\ isAnimatedSequence
  /\ totalFrames >= 2
  /\ currentFrame = 1
  /\ Len(attempted) = 1
  /\ TooLarge(attempted[1].path)
  /\ videoBuffer = AnimFolder \o Str_slash \o File_a_jpg
  /\ screen = Screen("image", videoBuffer)

\* C29: the frame table never holds more than MAX_FRAMES entries and has no
\* slot beyond MAX_FRAMES - 1, and while an animation is playing the cursor
\* lies inside the table
C29_FrameTableInBounds ==
  /\ totalFrames <= MAX_FRAMES
  /\ DOMAIN frameFiles = 0..(MAX_FRAMES - 1)
  /\ (videoPlaying /\ isAnimatedSequence) =>
       (0 <= currentFrame /\ currentFrame < totalFrames)

\* an animation from a folder of more than MAX_FRAMES JPEG files is playing
\* with a full table, the cursor at its last slot
C29_Witness ==
  /\ Cardinality(JpegNames(sdAnim)) > MAX_FRAMES
  /\ videoPlaying /\ isAnimatedSequence
  /\ totalFrames = MAX_FRAMES
  /\ currentFrame = MAX_FRAMES - 1
  /\ frameFiles[MAX_FRAMES - 1] # Empty

\* C30: an animation from a folder of more than MAX_FRAMES JPEG files plays
\* the MAX_FRAMES files with the smallest names in ascending order, whatever
\* the order of enumeration
C30_SmallestNamesArePlayed ==
  (/\ videoPlaying /\ isAnimatedSequence
   /\ Cardinality(JpegNames(sdAnim)) > MAX_FRAMES)
    => /\ totalFrames = MAX_FRAMES
       /\ \A k \in 0..(MAX_FRAMES - 1) :
            frameFiles[k] = AnimFolder \o Str_slash \o NthSmallest(JpegNames(sdAnim), k)

\* C31: an iteration of videoTask that runs a STOP_VIDEO command, or in
\* which a non-looping animation comes to its end, leaves videoPlaying
\* false, the cursor at 0, the length at 0 and every slot of the frame
\* table empty
C31_EndedPlaybackIsCleared ==
  [][(/\ VideoLoop
      /\ \/ (videoQ # << >> /\ Head(videoQ).type = "STOP_VIDEO")
         \/ (/\ videoQ = << >>
             /\ videoPlaying /\ isAnimatedSequence /\ ~videoLooping
             /\ ~videoPlaying'))
      => /\ ~videoPlaying'
         /\ currentFrame' = 0
         /\ totalFrames' = 0
         /\ frameFiles' = NoFrames]_vars

\* C32: while a looping animation plays and no request is left to arrive,
\* videoTask, with nothing in its queue, comes to attempt every frame of the
\* animation, again and again
C32_LoopingAnimationVisitsEveryFrame ==
  \A k \in 0..(MaxDirFiles - 1) :
    (/\ videoPlaying /\ videoLooping /\ isAnimatedSequence
     /\ k < totalFrames
     /\ videoQ = << >> /\ nRecv = MaxAnimDatagrams)
      ~> (Len(attempted) > 0 /\ attempted[Len(attempted)].frame = k)

C34_SequenceNeverRejects ==
  [][(pc = "sacn" /\ pc' = "udp" /\ rxAccepted')
     => /\ sacnSequence' = rx'.seq
        /\ \A i \in 0..(TOTAL_LEDS - 1) :
             Pixel(leds1', leds2', leds3', i) = PayloadColour(rx', sacnStartAddress, i)]_vars

\* C35: for every datagram handleUDPCommands has read, the terminator is
\* written at an index inside char incomingPacket[255], that is at an index
\* of 0 .. 254, so that the text given to the parser ends inside the buffer.
C35_TerminatorInsideBuffer ==
  (pc = "wifi" /\ cmd # NoDatagram) =>
     (udp_read_len(cmd) >= 0 /\ udp_read_len(cmd) < INCOMING_PACKET_SIZE)

-----------------------------------------------------------------------------
(* Claims, Part III and Part IV *)

\* C36: a factory reset by the boot button starts only when every check of
\* loop() has read the button as pressed for at least BOOT_HOLD_TIME since
\* the first of these checks; a check that reads the button as released ends
\* the count, and the next check that reads it as pressed starts the count at
\* the time of that check; and while the button stays down without a break
\* at most one factory reset is started.
C36_OneResetPerFullHold ==
  [][/\ (holdResets' = holdResets + 1)
          => (pressedSince # -1 /\ supNow - pressedSince >= BOOT_HOLD_TIME)
     /\ (bootButtonPressed /\ ~bootPin /\ supNow' = supNow
           /\ pressedSince' # pressedSince)
          => ~bootButtonPressed'
     /\ (~bootButtonPressed /\ bootButtonPressed')
          => bootButtonPressStart' = supNow
     /\ holdResets' <= 1]_vars

\* C37: once /activate has set currentState, it is cleared only by the handler
\* of /deactivate or by a pass of loop() that reads the trigger as released
\* after the pass before it had read it as pressed; a pass of loop() that
\* finds the trigger up as it was before leaves the prop active.
C37_WebActivationHolds ==
  [][(currentState /\ ~currentState')
       => \/ (dfWeb = WebIdle /\ dfWeb'.req = "deactivate")
          \/ (dfLoop' # dfLoop /\ lastTriggerRead /\ ~lastTriggerRead')]_vars

\* C38: when videoTask has taken a play_video command, then at the end of the
\* switch either the requested source plays with the cursor at 0 and
\* 1 <= totalFrames <= MAX_FRAMES, or nothing plays; at the end of the same
\* pass of the loop the same holds, the first frame being the only one that
\* may have been attempted.  What played before the command plays no longer,
\* also when the requested source is not found.
C38_PlayRequestReplacesPlayback ==
  [][(/\ videoQ # << >>
      /\ Head(videoQ).type = "PLAY_VIDEO"
      /\ vidDone' # vidDone)
     => LET c == Head(videoQ)
            v1 == playVideo(PlaybackState, c.filename, c.loop, sdCardInitialized, sdAnim)
        IN /\ v1.videoPlaying
                => /\ v1.currentVideo = c.filename
                   /\ v1.videoLooping = c.loop
                   /\ v1.currentFrame = 0
                   /\ v1.totalFrames >= 1 /\ v1.totalFrames <= MAX_FRAMES
                   /\ v1.attempted = << >>
           /\ ~v1.videoPlaying => ~videoPlaying'
           /\ videoPlaying'
                => /\ currentVideo' = c.filename
                   /\ totalFrames' >= 1 /\ totalFrames' <= MAX_FRAMES
                   /\ \/ (attempted' = << >> /\ currentFrame' = 0)
                      \/ (Len(attempted') = 1 /\ attempted'[1].frame = 0)]_vars

\* a looping animation was playing when a second play_video command was
\* taken whose source is not on the card: nothing plays
C38_Witness ==
  /\ Len(vidDone) = 2
  /\ vidDone[1].type = "PLAY_VIDEO" /\ vidDone[1].loop
  /\ vidDone[2].type = "PLAY_VIDEO" /\ vidDone[2].filename # vidDone[1].filename
  /\ ~videoPlaying /\ totalFrames = 0
  /\ screen = Screen("stopped", Empty)

\* C39: for every accepted packet and every start address of 1 .. 512, every
\* index of the payload that updateLEDsFromDMX reads is smaller than the
\* number of payload bytes received, which is at most 512, and is the index
\* of a byte of the datagram.
C39_PayloadReadsInsideFrame ==
  (pc = "udp" /\ rxAccepted) =>
     /\ sacnStartAddress \in 1..DMX_SLOTS
     /\ DmxLength(rx) <= DMX_SLOTS
     /\ \A k \in DmxIndicesRead(sacnStartAddress) :
          /\ k >= 0 /\ k < DmxLength(rx)
          /\ E131_DATA_OFFSET + k \in DOMAIN PacketBytes(rx)

\* with the last start address that leaves room for every pixel, a packet of
\* 512 payload bytes has been applied: the last pixel holds bytes 508 .. 510
C39_Witness ==
  /\ pc = "udp" /\ rxAccepted
  /\ sacnStartAddress = DMX_SLOTS - TOTAL_LEDS * 3
  /\ DmxLength(rx) = DMX_SLOTS
  /\ DMX_SLOTS - 2 \in DmxIndicesRead(sacnStartAddress)
  /\ Pixel(leds1, leds2, leds3, TOTAL_LEDS - 1)
       = PayloadColour(rx, sacnStartAddress, TOTAL_LEDS - 1)
  /\ rx.pat = 2
====
